---- MODULE Spec2Model ----
(***************************************************************************)
(* A model of bilby.js as vendored under node_modules/lti/node_modules.    *)
(*                                                                         *)
(* Part 1: the environment (immutable multimethods and properties).        *)
(* JavaScript objects live in a heap, so that sharing between environment  *)
(* generations and the absence of in-place updates are visible: an object  *)
(* is a list of <<key, value>> pairs in insertion order (the order of      *)
(* for-in), an array is a list of elements, an environment is an object    *)
(* whose closure holds the references `methods` and `properties`.          *)
(*                                                                         *)
(* Part 2: tagged sums and their catamorphism.  The program holds the      *)
(* constructors of one sum and the values it has built with them.          *)
(*                                                                         *)
(* Part 3: the data structures (Option, Either, Validation, IO, lenses,    *)
(* the trampoline) and the property checker.  The program holds one value  *)
(* (held) and applies operations to it; step lists the operations applied  *)
(* and trace the calls of the caller's functions they made, in order.      *)
(***************************************************************************)
EXTENDS Integers, Sequences, FiniteSets, TLC

VARIABLES heap, envs, last, sum, values, done, held, trace, step

vars == <<heap, envs, last, sum, values, done, held, trace, step>>
envVars == <<heap, envs, last>>
sumVars == <<sum, values, done>>
dataVars == <<held, trace, step>>

(***************************************************************************)
(* Bounds.                                                                 *)
(***************************************************************************)
\* number of environment references the program holds
MaxEnvs == 3
\* longest argument list of a multimethod call
MaxArgs == 2
\* number of values of the sum the program holds
MaxValues == 2
\* longest array the program builds a data structure around
MaxElems == 1
\* number of operations the program applies to the value it holds
MaxOps == 2

(***************************************************************************)
(* JavaScript values.                                                      *)
(***************************************************************************)
JSNumber(n) == [kind |-> "number", v |-> n]
JSBoolean(b) == [kind |-> "boolean", v |-> IF b THEN 1 ELSE 0]
JSRef(a) == [kind |-> "object", v |-> a]
JSUndefined == [kind |-> "undefined", v |-> 0]
\* a function value; v identifies it
JSFunction(k, a) == [kind |-> k, v |-> a]

FunctionKinds == {"builtin", "multimethod", "handler"}

\* ToBoolean, as applied by if(...) and ||
Truthy(x) ==
    CASE x.kind \in {"number", "boolean"} -> x.v # 0
      [] x.kind = "undefined" -> FALSE
      [] OTHER -> TRUE

\* the typeof operator
TypeOf(x) == IF x.kind \in FunctionKinds THEN "function" ELSE x.kind

\* isTypeOf(s, o)
isTypeOf(s, o) == TypeOf(o) = s

(***************************************************************************)
(* Values of the data structures.  A value is plain (an array of numbers,  *)
(* a function, undefined) or one constructor of a data structure around a  *)
(* plain value: type names the constructor, kind, elems and fn describe    *)
(* the plain value.  A function is one of the caller's functions, named by *)
(* fn; elems is what its closure has captured.                             *)
(***************************************************************************)
Val(type, kind, elems, fn) == [kind |-> kind, type |-> type, elems |-> elems, fn |-> fn]
Arr(elems) == Val("plain", "array", elems, "")
Fn(fn, captured) == Val("plain", "function", captured, fn)
Undef == Val("plain", "undefined", <<>>, "")
\* the constructor `type` around the plain value x, and the value inside
Wrap(type, x) == [x EXCEPT !.type = type]
Unwrap(v) == [v EXCEPT !.type = "plain"]
IsPlain(v, kind) == v.type = "plain" /\ v.kind = kind

(***************************************************************************)
(* The inputs the operations are exercised with.                           *)
(***************************************************************************)
\* names that are not members of Object.prototype; "method" is a member
\* every environment already has
Names == {"negate", "name", "method"}
\* predicates a registration is made with: isNumber, isBoolean
Preds == {"isNumber", "isBoolean"}
\* implementations, told apart by identity
Impls == {"f", "g"}
\* property values, one of them falsy
PropVals == {JSNumber(0), JSNumber(1)}
\* argument values
ArgVals == {JSNumber(100), JSBoolean(TRUE)}

ArgLists == UNION {[1..n -> ArgVals] : n \in 0..MaxArgs}

\* args[i], undefined past the end of the arguments
Arg(args, i) == IF i \in 1..Len(args) THEN args[i] ELSE JSUndefined

\* predicate.apply(this, args) for the predicates isNumber and isBoolean
Holds(predicate, args) ==
    CASE predicate = "isNumber" -> isTypeOf("number", Arg(args, 1))
      [] predicate = "isBoolean" -> isTypeOf("boolean", Arg(args, 1))
      [] predicate = "isFunction" -> IsPlain(Arg(args, 1), "function")
      [] predicate = "isArray" -> IsPlain(Arg(args, 1), "array")
      [] predicate = "isNumberOrString" -> IsPlain(Arg(args, 1), "number")
      [] predicate = "isOption" -> Arg(args, 1).type \in {"some", "none"}
      [] predicate = "isEither" -> Arg(args, 1).type \in {"left", "right"}
      [] predicate = "isValidation" -> Arg(args, 1).type \in {"success", "failure"}
      [] predicate = "isStore" -> Arg(args, 1).type = "store"
      [] predicate = "isIO" -> Arg(args, 1).type = "io"
      [] predicate = "isString" -> IsPlain(Arg(args, 1), "string")

\* f.length of the implementations
functionLength(f) == IF f = "f" THEN 1 ELSE 2

(***************************************************************************)
(* Heap cells.                                                             *)
(***************************************************************************)
ObjectCell(pairs) ==
    [kind |-> "object", elems |-> <<>>, pairs |-> pairs,
     methods |-> 0, properties |-> 0]
ArrayCell(elems) ==
    [kind |-> "array", elems |-> elems, pairs |-> <<>>,
     methods |-> 0, properties |-> 0]
\* an environment: its own members (`this`) and the closure variables
EnvCell(this, methods, properties) ==
    [kind |-> "environment", elems |-> <<>>, pairs |-> this,
     methods |-> methods, properties |-> properties]

\* a registration {predicate: predicate, f: f}
Registration(predicate, f) == [predicate |-> predicate, f |-> f, isReg |-> TRUE]
\* the value undefined as an array element
UndefinedElem == [predicate |-> "", f |-> "", isReg |-> FALSE]

(***************************************************************************)
(* Keyed objects as pair lists.                                            *)
(***************************************************************************)
Keys(o) == {o[i][1] : i \in 1..Len(o)}
Has(o, k) == k \in Keys(o)
Get(o, k) ==
    IF Has(o, k) THEN o[CHOOSE i \in 1..Len(o) : o[i][1] = k][2]
    ELSE JSUndefined
\* o[k] = v
Put(o, k, v) ==
    IF Has(o, k)
    THEN [i \in 1..Len(o) |-> IF o[i][1] = k THEN <<k, v>> ELSE o[i]]
    ELSE Append(o, <<k, v>>)

singleton(k, v) == <<<<k, v>>>>

RECURSIVE PutAll(_, _)
PutAll(o, b) ==
    IF b = <<>> THEN o ELSE PutAll(Put(o, Head(b)[1], Head(b)[2]), Tail(b))

\* extend(a, b): a fresh object, a's entries then b's over them
extend(a, b) == PutAll(PutAll(<<>>, a), b)

(***************************************************************************)
(* Outcomes of an operation: a value returned or an error thrown.          *)
(* message is the error's text as the list of the pieces it is             *)
(* concatenated from; ran counts the predicates that were applied.         *)
(***************************************************************************)
NoArgs == <<>>

\* an implementation applied to args, after ran predicate applications
Invoked(f, args, ran) ==
    [type |-> "", args |-> args, f |-> f, ran |-> ran,
     tag |-> "invoked", message |-> <<>>, ref |-> 0]
\* an environment returned
Returned(ref) ==
    [type |-> "", args |-> NoArgs, f |-> "", ran |-> 0,
     tag |-> "returned", message |-> <<>>, ref |-> ref]
Thrown(type, message, ran) ==
    [type |-> type, args |-> NoArgs, f |-> "", ran |-> ran,
     tag |-> "thrown", message |-> message, ref |-> 0]

\* throw new Error("Method not implemented for this input")
NotImplemented(ran) ==
    Thrown("Error", <<"Method not implemented for this input">>, ran)
\* what the engine throws when registrations[i] is undefined
UndefinedRegistration(ran) ==
    Thrown("TypeError", <<"Cannot read property 'predicate' of undefined">>, ran)
\* what the engine throws when the callee is not a function
NotAFunction(name) ==
    Thrown("TypeError", <<name, " is not a function">>, 0)

\* a callable that holds args and awaits the remainder
Awaiting(args) ==
    [type |-> "", args |-> args, f |-> "", ran |-> 0,
     tag |-> "awaiting", message |-> <<>>, ref |-> 0]
\* a handler function (a reference ref) applied to args
Applied(ref, args) ==
    [type |-> "", args |-> args, f |-> "", ran |-> 0,
     tag |-> "applied", message |-> <<>>, ref |-> ref]

(***************************************************************************)
(* findRegistered(registrations, args), scanning from index i (1-based).   *)
(***************************************************************************)
\* the scan with the loop bound off by one (i <= registrations.length): it
\* reads one entry past the end instead of throwing its own error
RECURSIVE findRegisteredFrom_offByOne(_, _, _)
findRegisteredFrom_offByOne(registrations, args, i) ==
    IF i > Len(registrations) THEN UndefinedRegistration(i - 1)
    ELSE IF ~registrations[i].isReg THEN UndefinedRegistration(i - 1)
    ELSE IF Holds(registrations[i].predicate, args)
         THEN Invoked(registrations[i].f, args, i)
         ELSE findRegisteredFrom_offByOne(registrations, args, i + 1)

RECURSIVE findRegisteredFrom(_, _, _)
findRegisteredFrom(registrations, args, i) ==
    IF i > Len(registrations) THEN NotImplemented(i - 1)
    ELSE IF ~registrations[i].isReg THEN UndefinedRegistration(i - 1)
    ELSE IF Holds(registrations[i].predicate, args)
         THEN Invoked(registrations[i].f, args, i)
         ELSE findRegisteredFrom(registrations, args, i + 1)

\* findRegistered(registrations, args).apply(this, args)
findRegistered(registrations, args) == findRegisteredFrom(registrations, args, 1)

\* makeMethod returning a curried function, of the arity of the first
\* registered implementation
makeMethod_curried(h, registrations, args) ==
    IF /\ h[registrations].elems # <<>>
       /\ h[registrations].elems[1].isReg
       /\ Len(args) < functionLength(h[registrations].elems[1].f)
    THEN Awaiting(args)
    ELSE findRegistered(h[registrations].elems, args)

\* the function makeMethod(registrations) returns, called with args;
\* registrations is the array captured when the environment was built
makeMethod(h, registrations, args) == findRegistered(h[registrations].elems, args)

(***************************************************************************)
(* environment(methods, properties): the constructor's two loops over an   *)
(* object that already has method, property, envConcat and envAppend.      *)
(***************************************************************************)
OwnMembers ==
    << <<"method", JSFunction("builtin", 1)>>,
       <<"property", JSFunction("builtin", 2)>>,
       <<"envConcat", JSFunction("builtin", 3)>>,
       <<"envAppend", JSFunction("builtin", 4)>> >>

AlreadyIn(kind, i) ==
    Thrown("Error", <<kind, " ", i, " already in environment.">>, 0)

\* for(i in methods): this[i] = makeMethod(methods[i]), from pair k on
RECURSIVE addMethods(_, _, _)
addMethods(this, methods, k) ==
    IF k > Len(methods) THEN [this |-> this, ok |-> TRUE, error |-> Returned(0)]
    ELSE IF Truthy(Get(this, methods[k][1]))
         THEN [this |-> this, ok |-> FALSE,
               error |-> AlreadyIn("Method", methods[k][1])]
         ELSE addMethods(
                  Put(this, methods[k][1], JSFunction("multimethod", methods[k][2].v)),
                  methods, k + 1)

\* for(i in properties): this[i] = properties[i], from pair k on
RECURSIVE addProperties(_, _, _)
addProperties(this, properties, k) ==
    IF k > Len(properties) THEN [this |-> this, ok |-> TRUE, error |-> Returned(0)]
    ELSE IF Truthy(Get(this, properties[k][1]))
         THEN [this |-> this, ok |-> FALSE,
               error |-> AlreadyIn("Property", properties[k][1])]
         ELSE addProperties(
                  Put(this, properties[k][1], properties[k][2]),
                  properties, k + 1)

\* the result of an operation on heap h: the heap after it and its outcome
Outcome(h, out) == [heap |-> h, out |-> out]

\* the constructor with its two loops in the other order: a falsy property
\* does not stop the method of the same name from replacing it
environment_propertiesFirst(h0, h, methods, properties) ==
    LET withProperties == addProperties(OwnMembers, h[properties].pairs, 1)
        withMethods == addMethods(withProperties.this, h[methods].pairs, 1)
    IN  IF ~withProperties.ok THEN Outcome(h0, withProperties.error)
        ELSE IF ~withMethods.ok THEN Outcome(h0, withMethods.error)
        ELSE Outcome(Append(h, EnvCell(withMethods.this, methods, properties)),
                     Returned(Len(h) + 1))

\* new environment(methods, properties) on the objects methods and
\* properties of h (for an argument left out the constructor makes the
\* empty object itself, which is the same heap); the objects allocated for a construction that throws are unreachable and
\* are not kept
environment(h0, h, methods, properties) ==
    LET withMethods == addMethods(OwnMembers, h[methods].pairs, 1)
        withProperties == addProperties(withMethods.this, h[properties].pairs, 1)
    IN  IF ~withMethods.ok THEN Outcome(h0, withMethods.error)
        ELSE IF ~withProperties.ok THEN Outcome(h0, withProperties.error)
        ELSE Outcome(Append(h, EnvCell(withProperties.this, methods, properties)),
                     Returned(Len(h) + 1))

(***************************************************************************)
(* The operations of an environment e (the address of its cell).           *)
(***************************************************************************)
\* method with push in place of concat: the array the receiver's
\* multimethod scans is itself extended
method_push(h, e, name, predicate, f) ==
    LET methods == h[h[e].methods].pairs
        arr == Get(methods, name).v
        h1 == IF Truthy(Get(methods, name))
              THEN [h EXCEPT ![arr] =
                        ArrayCell(h[arr].elems \o <<Registration(predicate, f)>>)]
              ELSE h
        h2 == IF Truthy(Get(methods, name))
              THEN h1
              ELSE Append(h1, ArrayCell(<<Registration(predicate, f)>>))
        newMethods ==
            extend(methods,
                   singleton(name, IF Truthy(Get(methods, name))
                                   THEN Get(methods, name) ELSE JSRef(Len(h2))))
        h3 == Append(h2, ObjectCell(newMethods))
    IN  environment(h1, h3, Len(h3), h[e].properties)

\* e.method(name, predicate, f)
method(h, e, name, predicate, f) ==
    LET methods == h[h[e].methods].pairs
        old == IF Truthy(Get(methods, name))
               THEN h[Get(methods, name).v].elems
               ELSE <<>>
        h1 == Append(h, ArrayCell(old \o <<Registration(predicate, f)>>))
        newMethods == extend(methods, singleton(name, JSRef(Len(h1))))
        h2 == Append(h1, ObjectCell(newMethods))
    IN  environment(h, h2, Len(h2), h[e].properties)

\* e.property(name, value)
property(h, e, name, value) ==
    LET properties == h[h[e].properties].pairs
        newProperties == extend(properties, singleton(name, value))
        h1 == Append(h, ObjectCell(newProperties))
    IN  environment(h, h1, h[e].methods, Len(h1))

\* what a.concat(x) appends: the elements of an array x, or x itself
concatArg(h, x) == IF x.kind = "undefined" THEN <<UndefinedElem>> ELSE h[x.v].elems

\* for(i in methods) newMethods[i] = methods[i].concat(extraMethods[i]),
\* from pair k on; each concat allocates an array
RECURSIVE concatMethods(_, _, _, _, _)
concatMethods(h, methods, extraMethods, k, newMethods) ==
    IF k > Len(methods) THEN [heap |-> h, pairs |-> newMethods]
    ELSE LET i == methods[k][1]
             h1 == Append(h, ArrayCell(h[methods[k][2].v].elems
                                       \o concatArg(h, Get(extraMethods, i))))
         IN  concatMethods(h1, methods, extraMethods, k + 1,
                           Put(newMethods, i, JSRef(Len(h1))))

\* for(i in extraMethods) { if(i in newMethods) continue;
\*                          newMethods[i] = extraMethods[i]; }
RECURSIVE addExtraMethods(_, _, _)
addExtraMethods(newMethods, extraMethods, k) ==
    IF k > Len(extraMethods) THEN newMethods
    ELSE addExtraMethods(
             IF Has(newMethods, extraMethods[k][1]) THEN newMethods
             ELSE Put(newMethods, extraMethods[k][1], extraMethods[k][2]),
             extraMethods, k + 1)

\* e.envConcat(extraMethods, extraProperties), the extras being objects of h;
\* h0 is the heap before the caller built them
envConcat(h0, h, e, extraMethods, extraProperties) ==
    LET c == concatMethods(h, h[h[e].methods].pairs, h[extraMethods].pairs, 1, <<>>)
        newMethods == addExtraMethods(c.pairs, h[extraMethods].pairs, 1)
        h1 == Append(c.heap, ObjectCell(newMethods))
        h2 == Append(h1, ObjectCell(extend(h[h[e].properties].pairs,
                                           h[extraProperties].pairs)))
    IN  environment(h0, h2, Len(h1), Len(h2))

\* envAppend with the receiver as the base of the concatenation
envAppend_receiverBase(h, a, e) == envConcat(h, h, a, h[e].methods, h[e].properties)

\* a.envAppend(e)
envAppend(h, a, e) == envConcat(h, h, e, h[a].methods, h[a].properties)

\* e[name](args...): a member call on an environment
call(h, e, name, args) ==
    LET member == Get(h[e].pairs, name)
    IN  IF member.kind = "multimethod" THEN makeMethod(h, member.v, args)
        ELSE NotAFunction(name)

\* e[name]: a member read on an environment
read(h, e, name) == Get(h[e].pairs, name)

(***************************************************************************)
(* Part 2.  tagged(name, fields) and taggedSum(constructors).              *)
(* constructors is an object literal: the list of <<name, fields>> in the  *)
(* order written.  Names are identifiers that are no members of            *)
(* Object.prototype; the entries of a dispatch table are functions.        *)
(***************************************************************************)
Sums ==
    { << <<"Cons", <<"car", "cdr">> >>, <<"Nil", <<>> >> >>,
      << <<"Nil", <<>> >>, <<"Cons", <<"car", "cdr">> >> >>,
      << <<"Nil", <<>> >> >> }

\* the values given to constructors and the names and functions of tables
FieldVals == {JSNumber(1), JSNumber(2)}
FieldLists == UNION {[1..n -> FieldVals] : n \in 0..MaxArgs}
TableNames == {"Cons", "Nil", "Leaf"}
Handlers == {JSFunction("handler", 1), JSFunction("handler", 2)}

\* the dispatch tables: object literals with distinct keys
Tables ==
    UNION {{t \in [1..n -> TableNames \X Handlers] :
                \A i, j \in 1..n : t[i][1] = t[j][1] => i = j} :
           n \in 0..Cardinality(TableNames)}

\* an instance made by the constructor `name`
Instance(name, pairs) == [pairs |-> pairs, name |-> name]
NoInstance == Instance("", <<>>)

\* for(i = 0; i < fields.length; i++) this[fields[i]] = arguments[i]
RECURSIVE setFields(_, _, _, _)
setFields(pairs, fields, arguments, i) ==
    IF i > Len(fields) THEN pairs
    ELSE setFields(Put(pairs, fields[i], arguments[i]), fields, arguments, i + 1)

\* the constructor tagged(name, fields) returns, called on arguments
tagged(name, fields, arguments) ==
    IF Len(arguments) # Len(fields)
    THEN [this |-> NoInstance,
          out |-> Thrown("TypeError",
                         <<"Expected ", ToString(Len(fields)),
                           " arguments, got ", ToString(Len(arguments))>>, 0)]
    ELSE [this |-> Instance(name, setFields(<<>>, fields, arguments, 1)),
          out |-> Returned(0)]

\* the keys of the two loops that throw, by position
NotSupplied(constructors, dispatches) ==
    {k \in 1..Len(constructors) : ~Truthy(Get(dispatches, constructors[k][1]))}
\* constructors[key] is an array, which is truthy
NotDefined(constructors, dispatches) ==
    {k \in 1..Len(dispatches) : ~Has(constructors, dispatches[k][1])}

MinOf(S) == CHOOSE k \in S : \A j \in S : k <= j

\* the catamorphism with the loop over the keys of dispatches left out
makeCata_noExtraLoop(constructors, fields, field, this, dispatches) ==
    IF NotSupplied(constructors, dispatches) # {}
    THEN Thrown("TypeError",
                <<"Constructors define ",
                  constructors[MinOf(NotSupplied(constructors, dispatches))][1],
                  " but not supplied to cata">>, 0)
    ELSE Applied(Get(dispatches, field).v,
                 [i \in 1..Len(fields) |-> Get(this.pairs, fields[i])])

\* the function makeCata(fields, field) returns, called on this with
\* dispatches
makeCata(constructors, fields, field, this, dispatches) ==
    IF NotSupplied(constructors, dispatches) # {}
    THEN Thrown("TypeError",
                <<"Constructors define ",
                  constructors[MinOf(NotSupplied(constructors, dispatches))][1],
                  " but not supplied to cata">>, 0)
    ELSE IF NotDefined(constructors, dispatches) # {}
    THEN Thrown("TypeError",
                <<"Found extra constructor supplied to cata: ",
                  dispatches[MinOf(NotDefined(constructors, dispatches))][1]>>, 0)
    ELSE Applied(Get(dispatches, field).v,
                 [i \in 1..Len(fields) |-> Get(this.pairs, fields[i])])

\* the fields of definitions[name]
FieldsOf(constructors, name) ==
    constructors[CHOOSE k \in 1..Len(constructors) : constructors[k][1] = name][2]

\* the last operation on the sum and its outcome
SumLabel(op, name, arguments, this, dispatches, out) ==
    [this |-> this, name |-> name, out |-> out, arguments |-> arguments,
     dispatches |-> dispatches, op |-> op]
NoSumLabel == SumLabel("init", "", <<>>, NoInstance, <<>>, Returned(0))

(***************************************************************************)
(* Part 3.  Option, Either and Validation.                                 *)
(* An operation gives a result: the value it returns or the error it       *)
(* throws, with the calls of the caller's functions it made, in order.     *)
(***************************************************************************)
Res(value, calls) == [ok |-> TRUE, error |-> "", value |-> value, calls |-> calls]
Raise(error, calls) == [ok |-> FALSE, error |-> error, value |-> Undef, calls |-> calls]
\* f was called on x
CallOf(f, x) == [fn |-> f, arg |-> x]

\* The caller's functions:
\*   dup      = function(x) { return x.concat(x); }
\*   tail     = function(x) { return x.slice(1); }
\*   concat2  = function(a) { var c = a.slice(0);
\*                            return function(b) { return c.concat(b.slice(0)); }; }
\* concatTo is the function concat2 returns.  Each throws a TypeError on a
\* value that is no array.
Functions == {"dup", "tail", "concat2"}
\* The caller's thunks, given to io:
\*   one = function() { return [1]; }      two = function() { return [2]; }
\* and the caller's functions given to flatMap of an IO:
\*   pureIO = function(b) { return io(constant(b.slice(0))); }
\*   dupIO  = function(b) { return io(function() { return b.concat(b); }); }
\* constantOf and dupOf are the thunks of the IO values these return.
Thunks == {"one", "two"}
IOFunctions == {"pureIO", "dupIO"}

\* io(f) for the thunk fn with what its closure captured, flatMapped with
\* the functions then, in order
IO(fn, captured, then) ==
    [kind |-> "function", type |-> "io", elems |-> captured, fn |-> fn, then |-> then]

\* f(x): what the function returns or throws
Return(f, x) ==
    CASE f.fn = "one" -> Res(Arr(<<1>>), <<>>)
      [] f.fn = "two" -> Res(Arr(<<2>>), <<>>)
      [] f.fn = "constantOf" -> Res(Arr(f.elems), <<>>)
      [] f.fn = "dupOf" -> Res(Arr(f.elems \o f.elems), <<>>)
      [] OTHER ->
           IF x.kind # "array" \/ x.type # "plain" THEN Raise("TypeError", <<>>)
           ELSE CASE f.fn = "dup" -> Res(Arr(x.elems \o x.elems), <<>>)
                  [] f.fn = "tail" -> Res(Arr(SubSeq(x.elems, 2, Len(x.elems))), <<>>)
                  [] f.fn = "concat2" -> Res(Fn("concatTo", x.elems), <<>>)
                  [] f.fn = "concatTo" -> Res(Arr(f.elems \o x.elems), <<>>)
                  [] f.fn = "pureIO" -> Res(IO("constantOf", x.elems, <<>>), <<>>)
                  [] f.fn = "dupIO" -> Res(IO("dupOf", x.elems, <<>>), <<>>)

\* the call f(x) of a value f held where a function is expected
Apply(f, x) ==
    IF ~IsPlain(f, "function") THEN Raise("TypeError", <<>>)
    ELSE [Return(f, x) EXCEPT !.calls = <<CallOf(f, x)>>]

\* r, then next on its value unless r threw; the calls of both in order
Then(r, next(_)) ==
    IF ~r.ok THEN r
    ELSE [next(r.value) EXCEPT !.calls = r.calls \o @]

\* the registrations of the multimethods of the bilby environment, in the
\* order they are made
\* the registrations of map with one for IO values at the end
mapRegistrations_withIO ==
    <<Registration("isFunction", "functionMap"), Registration("isArray", "arrayMap"),
      Registration("isOption", "optionMap"), Registration("isEither", "eitherMap"),
      Registration("isValidation", "validationMap"), Registration("isStore", "storeMap"),
      Registration("isIO", "ioMap")>>

mapRegistrations ==
    <<Registration("isFunction", "functionMap"), Registration("isArray", "arrayMap"),
      Registration("isOption", "optionMap"), Registration("isEither", "eitherMap"),
      Registration("isValidation", "validationMap"), Registration("isStore", "storeMap")>>
apRegistrations ==
    <<Registration("isFunction", "functionAp"), Registration("isArray", "arrayAp"),
      Registration("isOption", "optionAp"), Registration("isEither", "eitherAp"),
      Registration("isValidation", "validationAp")>>
appendRegistrations ==
    <<Registration("isArray", "arrayAppend"),
      Registration("isNumberOrString", "plusAppend"),
      Registration("isOption", "optionAppend"), Registration("isEither", "eitherAppend")>>
flatMapRegistrations ==
    <<Registration("isArray", "arrayFlatMap"), Registration("isOption", "optionFlatMap"),
      Registration("isEither", "eitherFlatMap"), Registration("isIO", "ioFlatMap")>>

\* v.map(f) of an Option, an Either or a Validation
mapOf(v, f) ==
    IF v.type \in {"some", "right", "success"}
    THEN Then(Apply(f, Unwrap(v)), LAMBDA y : Res(Wrap(v.type, y), <<>>))
    ELSE Res(v, <<>>)

\* getOrElse answering the default for a some as well
getOrElse_defaultOnly(v, x) == Res(x, <<>>)

\* v.getOrElse(x) of an Option
getOrElse(v, x) == IF v.type = "some" THEN Res(Unwrap(v), <<>>) ELSE Res(x, <<>>)

\* Validation = taggedSum({success: ['value'], failure: ['errors']})
Validation == << <<"success", <<"value">> >>, <<"failure", <<"errors">> >> >>
\* the instance of the tagged sum a Validation value is
ValidationInstance(v) ==
    Instance(v.type, << <<FieldsOf(Validation, v.type)[1], Unwrap(v)>> >>)
\* the table failure.ap gives to cata
apDispatches ==
    << <<"success", JSFunction("handler", 1)>>, <<"failure", JSFunction("handler", 2)>> >>

\* the multimethods of the environment: the implementation registered for
\* the first predicate that holds, or findRegistered's error.  The
\* implementations for functions, for arrays elementwise, for numbers and
\* for stores work on values the program never passes: Outside stands for
\* them.
Dispatched(registrations, args, impl(_)) ==
    LET out == findRegistered(registrations, args)
    IN  IF out.tag = "thrown" THEN Raise(out.type, <<>>) ELSE impl(out.f)
Outside == Raise("Outside", <<>>)

\* the fold of an Either with what the two functions given to it return
foldEither(e, a(_), b(_)) == IF e.type = "left" THEN a(Unwrap(e)) ELSE b(Unwrap(e))

\* append(a, b) of the environment; arrays are appended to arrays only
RECURSIVE append(_, _)

\* the append of an Either with a right absorbing a left
eitherAppend_rightAbsorbs(e, other) ==
    IF e.type = "right"
    THEN foldEither(other,
                    LAMBDA y : Res(e, <<>>),
                    LAMBDA y : Then(append(Unwrap(e), y),
                                    LAMBDA z : Res(Wrap("right", z), <<>>)))
    ELSE foldEither(other,
                    LAMBDA y : Then(append(Unwrap(e), y),
                                    LAMBDA z : Res(Wrap("left", z), <<>>)),
                    LAMBDA y : Res(Wrap("right", y), <<>>))

\* e.append(other, plus) of an Either, plus being append of the environment
eitherAppend(e, other) ==
    IF e.type = "left"
    THEN foldEither(other,
                    LAMBDA y : Then(append(Unwrap(e), y),
                                    LAMBDA z : Res(Wrap("left", z), <<>>)),
                    LAMBDA y : Res(e, <<>>))
    ELSE foldEither(other,
                    LAMBDA x : Res(Wrap("left", x), <<>>),
                    LAMBDA y : Then(append(Unwrap(e), y),
                                    LAMBDA z : Res(Wrap("right", z), <<>>)))

\* o.append(s, plus) of an Option: s.map(function(y) { return plus(x, y); })
optionAppend(o, s) ==
    IF o.type = "none" THEN Res(o, <<>>)
    ELSE IF s.type \in {"some", "right", "success"}
    THEN Then(append(Unwrap(o), Unwrap(s)), LAMBDA z : Res(Wrap(s.type, z), <<>>))
    ELSE Res(s, <<>>)

append(a, b) ==
    Dispatched(appendRegistrations, <<a, b>>,
               LAMBDA impl : CASE impl = "arrayAppend" -> Res(Arr(a.elems \o b.elems), <<>>)
                               [] impl = "optionAppend" -> optionAppend(a, b)
                               [] impl = "eitherAppend" -> eitherAppend(a, b)
                               [] OTHER -> Outside)

\* the ap of a failure stopping at the first failure
failureAp_firstOnly(a, b) == Res(a, <<>>)

\* a.ap(b, append) of a failure
failureAp(a, b) ==
    LET out == makeCata(Validation, FieldsOf(Validation, b.type), b.type,
                        ValidationInstance(b), apDispatches)
    IN  IF out.tag = "thrown" THEN Raise(out.type, <<>>)
        ELSE IF out.ref = 1 THEN Res(a, <<>>)
        ELSE Then(append(Unwrap(a), out.args[1]),
                  LAMBDA errors : Res(Wrap("failure", errors), <<>>))

\* vf.ap(v) of an Option or an Either, vf.ap(v, append) of a Validation
apOf(vf, v) ==
    IF vf.type \in {"some", "right", "success"} THEN mapOf(v, Unwrap(vf))
    ELSE IF vf.type = "failure" THEN failureAp(vf, v)
    ELSE Res(vf, <<>>)

\* map(v, f) and ap(vf, v) of the environment
map(v, f) ==
    Dispatched(mapRegistrations, <<v, f>>,
               LAMBDA impl : IF impl \in {"optionMap", "eitherMap", "validationMap"}
                             THEN mapOf(v, f) ELSE Outside)
ap(vf, v) ==
    Dispatched(apRegistrations, <<vf, v>>,
               LAMBDA impl : IF impl \in {"optionAp", "eitherAp", "validationAp"}
                             THEN apOf(vf, v) ELSE Outside)

(***************************************************************************)
(* IO.  io(f) keeps the thunk f; flatMap(g) makes the IO of the thunk      *)
(* function() { return g(f()).perform(); }.                                *)
(***************************************************************************)
\* v.flatMap(g) calling the thunk when the IO is composed
ioFlatMap_eager(v, g) ==
    [Apply(Fn(v.fn, v.elems), Undef) EXCEPT
        !.ok = TRUE, !.error = "", !.value = [v EXCEPT !.then = Append(@, g.fn)]]

\* v.flatMap(g)
ioFlatMap(v, g) == Res([v EXCEPT !.then = Append(@, g.fn)], <<>>)

\* v.perform(): the thunk of v, run
RECURSIVE perform(_)

\* x = f() given, the rest of the thunks of flatMap from the k-th on:
\* g(x).perform()
RECURSIVE performThen(_, _, _)
performThen(r, then, k) ==
    IF ~r.ok \/ k > Len(then) THEN r
    ELSE performThen(
             Then(r, LAMBDA x :
                 Then(Apply(Fn(then[k], <<>>), x), LAMBDA w :
                     IF w.type = "io" THEN perform(w) ELSE Raise("TypeError", <<>>))),
             then, k + 1)

perform(v) == performThen(Apply(Fn(v.fn, v.elems), Undef), v.then, 1)

\* flatMap(a, b) of the environment
flatMap(a, b) ==
    Dispatched(flatMapRegistrations, <<a, b>>,
               LAMBDA impl : IF impl = "ioFlatMap" THEN ioFlatMap(a, b) ELSE Outside)

(***************************************************************************)
(* Lenses.  objectLens(k).run(o) is the store of the setter                *)
(* function(v) { return extend(o, singleton(k, v)); } and the getter o[k]; *)
(* o is the address of an object of the heap.                              *)
(***************************************************************************)
Store(o, k, getter) == [k |-> k, o |-> o, getter |-> getter]
NoStore == Store(0, "", JSUndefined)

\* objectLens(k).run(o)
objectLensRun(h, k, o) == Store(o, k, Get(h[o].pairs, k))

\* the setter writing the key into o itself
setter_inPlace(h, store, v) ==
    [heap |-> [h EXCEPT ![store.o] = ObjectCell(Put(h[store.o].pairs, store.k, v))],
     ref |-> store.o]

\* store.setter(v): the object singleton(k, v), then the object extend makes
setter(h, store, v) ==
    LET h1 == Append(h, ObjectCell(singleton(store.k, v)))
    IN  [heap |-> Append(h1, ObjectCell(extend(h1[store.o].pairs, h1[Len(h1)].pairs))),
         ref |-> Len(h1) + 1]

\* objectLens(k).run(x) on a value x that is no object of the heap: x[k] is
\* undefined and for(i in x) visits nothing, the store is on no object (0)
primitiveRun(k) == Store(0, k, JSUndefined)
\* its setter: extend(x, singleton(k, v))
primitiveSetter(h, store, v) ==
    LET h1 == Append(h, ObjectCell(singleton(store.k, v)))
    IN  [heap |-> Append(h1, ObjectCell(extend(<<>>, h1[Len(h1)].pairs))),
         ref |-> Len(h1) + 1]

\* the store of objectLens(k2).compose(objectLens(k1)).run(w): ls and ts of
\* lens.compose, with t = objectLens(k2) and l = objectLens(k1); its getter
\* is ts.getter.  t.run(ls.getter) reads ls.getter[k2], which throws a
\* TypeError when ls.getter is undefined
Composed(ls, ts, ok) == [ok |-> ok, ls |-> ls, ts |-> ts]
NoComposed == Composed(NoStore, NoStore, FALSE)
composeRun(h, k2, k1, w) ==
    LET ls == objectLensRun(h, k1, w)
    IN  CASE ls.getter.kind = "undefined" -> NoComposed
          [] ls.getter.kind = "object" -> Composed(ls, objectLensRun(h, k2, ls.getter.v), TRUE)
          [] OTHER -> Composed(ls, primitiveRun(k2), TRUE)

\* a composed setter that is ts.setter alone
composedSetter_innerOnly(h, c, v) ==
    IF c.ts.o = 0 THEN primitiveSetter(h, c.ts, v) ELSE setter(h, c.ts, v)
\* compose(ls.setter, ts.setter)(v) = ls.setter(ts.setter(v))
composedSetter(h, c, v) ==
    LET inner == IF c.ts.o = 0 THEN primitiveSetter(h, c.ts, v) ELSE setter(h, c.ts, v)
    IN  setter(inner.heap, c.ls, JSRef(inner.ref))

(***************************************************************************)
(* The Do syntax.  doQueue is undefined or an array of the operands that   *)
(* valueOf pushed.                                                         *)
(***************************************************************************)
Queue(items) == [items |-> items, defined |-> TRUE]
NoQueue == [items |-> <<>>, defined |-> FALSE]

\* the operation the function returned by Do() picks for n and the queue:
\* the last of its five tests that holds, "" when none does
opOf(n, queue) ==
    CASE n = JSNumber(Len(queue.items)) -> "append"
      [] n = JSNumber(1) -> "ap"
      [] n = JSNumber(0) -> "kleisli"
      [] n = JSBoolean(FALSE) -> "map"
      [] n = JSBoolean(TRUE) -> "flatMap"
      [] OTHER -> ""

\* the function returned by Do() called with n: how it ends and the doQueue
\* it leaves, oldDoQueue being the queue Do() saved; throws says whether a
\* call env[op](x, doQueue[i]) of its loop throws
doBody(n, queue, oldDoQueue, throws) ==
    CASE queue.items = <<>> -> [queue |-> oldDoQueue, ev |-> "returned"]
      [] queue.items # <<>> /\ opOf(n, queue) = "" ->
           [queue |-> oldDoQueue, ev |-> "ambiguous"]
      [] OTHER ->
           IF Len(queue.items) > 1 /\ throws
             THEN [queue |-> queue, ev |-> "thrown"]
             ELSE [queue |-> oldDoQueue, ev |-> "returned"]

(***************************************************************************)
(* The routes /show and /show/:id of routes/lti.js.  The results of a      *)
(* query are undefined or the list of the rows; a body is what res.json    *)
(* is called with.                                                         *)
(***************************************************************************)
Results(rows) == [defined |-> TRUE, rows |-> rows]
NoResults == [defined |-> FALSE, rows |-> <<>>]
Json(kind, rows) == [kind |-> kind, rows |-> rows]

\* the callback function(err, results) of dbh.query on `route`: the calls of
\* res.json it makes, in order, whether it reads results, and what it throws
queryCallback(route, err, results) ==
    LET first == IF err THEN <<Json("err", <<>>)>> ELSE <<>>
    IN  IF ~results.defined
          THEN [read |-> TRUE, calls |-> first,
                thrown |-> "TypeError: Cannot read property 'length' of undefined"]
          ELSE [read |-> TRUE,
                calls |-> Append(first,
                                 IF Len(results.rows) > 0
                                   THEN IF route = "/show"
                                          THEN Json("results", results.rows)
                                          ELSE Json("results[0]", <<results.rows[1]>>)
                                   ELSE Json("No data found", <<>>)), thrown |-> ""]

(***************************************************************************)
(* The trampoline.  A bounce is done(result) or cont(thunk); the thunks of *)
(* a chain are numbered, the i-th of a chain of n returning the bounce of  *)
(* the next one, the last returning done(r).                               *)
(***************************************************************************)
doneOf(result) == [result |-> result, isDone |-> TRUE, thunk |-> 0]
contOf(thunk) == [result |-> Undef, isDone |-> FALSE, thunk |-> thunk]

\* the computation of n nested cont steps that ends in done(r)
ChainOf(n, r) == IF n = 0 THEN doneOf(r) ELSE contOf(1)
\* thunk(), for the i-th thunk of that computation
CallThunk(i, n, r) == IF i = n THEN doneOf(r) ELSE contOf(i + 1)

\* one iteration written as the recursion
\*   return trampoline(bounce.thunk())
\* which keeps its frame while the rest runs
trampolineBody_recursive(bounce, frames, n, r) ==
    [bounce |-> CallThunk(bounce.thunk, n, r), frames |-> frames + 1,
     called |-> <<bounce.thunk>>]

\* the body of the loop, bounce = bounce.thunk(), run in the frame of
\* trampoline: the bounce after it, the thunks called and the frames in use
trampolineBody(bounce, frames, n, r) ==
    [bounce |-> CallThunk(bounce.thunk, n, r), frames |-> frames,
     called |-> <<bounce.thunk>>]

(***************************************************************************)
(* QuickCheck.  The values generated are numbers, booleans and objects; a  *)
(* number is an integer of the range arb draws from, an object stands for  *)
(* any object, its entries play no part.                                   *)
(***************************************************************************)
Num(n) == Val("plain", "number", <<n>>, "")
Bool(b) == Val("plain", "boolean", <<IF b THEN 1 ELSE 0>>, "")
Obj == Val("plain", "object", <<>>, "")

\* the property goal of the environment, the number of trials; 100 unless
\* the caller sets it with bilby.property('goal', n)
goal == 3
\* the numbers of the model
MaxNumber == 4
\* the longest list of shapes
MaxShapes == 2

\* Math.pow(2, (s * bits) / this.goal), to the next power of two below; the
\* numbers of the model are below 2^30, a larger variance admits the same
variance(s) ==
    LET e == (s * 511) \div goal IN 2 ^ (IF e > 30 THEN 30 ELSE e)

Shapes == {"Number", "Boolean", "Object"}

\* the values arb(shape, s) can return: this.randomRange(-variance,
\* variance) is at least -variance and below variance
arb(shape, s) ==
    CASE shape = "Number" ->
           {Num(n) : n \in {m \in -MaxNumber..MaxNumber :
                                 -variance(s) <= m /\ m < variance(s)}}
      [] shape = "Boolean" -> {Bool(TRUE), Bool(FALSE)}
      [] shape = "Object" -> {Obj}

\* generateInputs(env, args, size): the arrays it can return, one value of
\* arb(arg, size) for every arg
generateInputs(args, size) ==
    {inputs \in [1..Len(args) -> UNION {arb(shape, size) : shape \in Shapes}] :
        \A k \in 1..Len(args) : inputs[k] \in arb(args[k], size)}

\* what shrink returns: an array of candidates, or a function of `length`
\* parameters
Candidates(items) == [kind |-> "array", items |-> items, length |-> Len(items)]
FunctionOf(length) == [kind |-> "function", items |-> <<>>, length |-> length]
\* shrunken[i][j], undefined when shrunken[i] has no element j (1-based)
At(c, j) == IF j \in 1..Len(c.items) THEN c.items[j] ELSE Undef

\* x / 2 rounded towards zero: Math.ceil below zero, Math.floor above
Halved(x) == IF x < 0 THEN -((-x) \div 2) ELSE x \div 2

\* the loop of shrink on a number, with accum and x
RECURSIVE shrinkNumberLoop(_, _, _)
shrinkNumberLoop(n, accum, x) ==
    IF x = 0 THEN accum
    ELSE LET y == Halved(x)
         IN  shrinkNumberLoop(n, IF y # 0 THEN Append(accum, Num(n - y)) ELSE accum, y)

\* shrink on a number
shrinkNumber(n) ==
    Candidates(shrinkNumberLoop(n, <<Num(0)>> \o (IF n < 0 THEN <<Num(-n)>> ELSE <<>>), n))

\* shrink on a boolean: function() { return function(b) { ... }; } returns
\* the inner function, of one parameter
shrinkBoolean == FunctionOf(1)

\* a string, as the list of its character codes
Str(elems) == Val("plain", "string", elems, "")

\* the values x takes inside the loop while(x) { x = Math.floor(x / 2);
\* if(x) { ... } } of shrink on a string or an array, from x on
RECURSIVE Halvings(_)
Halvings(x) ==
    IF x = 0 \/ x \div 2 = 0 THEN <<>> ELSE <<x \div 2>> \o Halvings(x \div 2)

\* shrink on a string: s.substring(0, s.length - x) for every x
shrinkString(s) ==
    LET len == Len(s.elems)
        xs == Halvings(len)
    IN  Candidates(<<Str(<<>>)>> \o
                   [k \in 1..Len(xs) |-> Str(SubSeq(s.elems, 1, len - xs[k]))])

\* shrink on an array: a.slice(a.length - x) for every x
shrinkArray(a) ==
    LET len == Len(a.elems)
        xs == Halvings(len)
    IN  Candidates(<<Arr(<<>>)>> \o
                   [k \in 1..Len(xs) |-> Arr(SubSeq(a.elems, len - xs[k] + 1, len))])

shrinkRegistrations ==
    <<Registration("isBoolean", "shrinkBoolean"), Registration("isNumber", "shrinkNumber"),
      Registration("isString", "shrinkString"), Registration("isArray", "shrinkArray")>>

\* a result of shrink, or the error it throws
Shrunk(value) == [ok |-> TRUE, error |-> "", value |-> value]
ShrinkThrows(error) == [ok |-> FALSE, error |-> error, value |-> Candidates(<<>>)]

\* env.shrink(v)
shrink(v) ==
    LET out == findRegistered(shrinkRegistrations, <<v>>)
    IN  IF out.tag = "thrown" THEN ShrinkThrows(out.message[1])
        ELSE IF out.f = "shrinkBoolean" THEN Shrunk(shrinkBoolean)
        ELSE IF out.f = "shrinkNumber" THEN Shrunk(shrinkNumber(v.elems[1]))
        ELSE IF out.f = "shrinkString" THEN Shrunk(shrinkString(v))
        ELSE Shrunk(shrinkArray(v))

\* env.map(inputs, env.shrink): the array of the results in order, or the
\* first error thrown
mapShrink(inputs) ==
    LET thrown == {k \in 1..Len(inputs) : ~shrink(inputs[k]).ok}
        first == CHOOSE k \in thrown : \A l \in thrown : k <= l
    IN  IF thrown # {}
        THEN [ok |-> FALSE, error |-> shrink(inputs[first]).error, value |-> <<>>]
        ELSE [ok |-> TRUE, error |-> "",
              value |-> [k \in 1..Len(inputs) |-> shrink(inputs[k]).value]]

\* the caller's properties, deterministic functions of their arguments:
\*   never:  function(n) { return false; }     always: ... return true;
\*   isZero: function(n) { return n === 0; }   small:  ... return n < 2;
\*   same:   function(a, b) { return a === b; }
Properties == {"never", "always", "isZero", "small", "same"}

\* a === b; two objects generated are never the same object
strictEq(a, b) == a = b /\ a.kind # "object"

\* property.apply(this, args)
propertyHolds(prop, args) ==
    LET n == args[1]
    IN  CASE prop = "never" -> FALSE
          [] prop = "always" -> TRUE
          [] prop = "isZero" -> n.kind = "number" /\ n.elems[1] = 0
          [] prop = "small" ->
               \/ n.kind = "number" /\ n.elems[1] < 2
               \/ n.kind = "boolean"
          [] prop = "same" -> strictEq(n, IF Len(args) > 1 THEN args[2] ELSE Undef)

\* the args of a position taken from the generated inputs
argsOf_inputs(smallest, inputs) == inputs

\* args = [].concat(smallest), at the start of a position of findSmallest
argsOf(smallest, inputs) == smallest

\* the body of the inner loop with the assignment to smallest before the
\* test
tryCandidate_keepsAny(prop, smallest, args, i, c) ==
    LET tried == [args EXCEPT ![i] = c]
    IN  [args |-> tried, smallest |-> [smallest EXCEPT ![i] = c],
         holds |-> propertyHolds(prop, tried)]

\* the body of the inner loop of findSmallest for the candidate c of
\* position i: args[i] = c; if(property.apply(this, args)) break;
\* smallest[i] = c
tryCandidate(prop, smallest, args, i, c) ==
    LET tried == [args EXCEPT ![i] = c]
        holds == propertyHolds(prop, tried)
    IN  [args |-> tried, smallest |-> IF holds THEN smallest ELSE [smallest EXCEPT ![i] = c],
         holds |-> holds]

\* failureReporter(inputs, tries), some(...) of it, none, and a call that
\* has not returned
failureReporter(inputs, tries) == [inputs |-> inputs, tries |-> tries]
NoReport == failureReporter(<<>>, 0)
SomeReport(report) == [type |-> "some", error |-> "", report |-> report]
NoneReport == [type |-> "none", error |-> "", report |-> NoReport]
ThrownReport(error) == [type |-> "thrown", error |-> error, report |-> NoReport]
Pending == [type |-> "pending", error |-> "", report |-> NoReport]

(***************************************************************************)
(* The calls of arb.  A shape is the list of its constructors from the     *)
(* outside in, arrayOf(arrayOf(Number)) being <<"arrayOf", "arrayOf",      *)
(* "Number">>; objectLike(props) has the one property a.  A size is a      *)
(* number, or what a missing argument gives: undefined, and NaN once       *)
(* something is subtracted from it, which behave alike here.               *)
(***************************************************************************)
Size(n) == [n |-> n, isNumber |-> TRUE]
NoSize == [n |-> 0, isNumber |-> FALSE]
\* s - 1
Minus1(s) == IF s.isNumber THEN Size(s.n - 1) ELSE NoSize

\* the call this.arb(shape, size) made inside arb(parent, psize)
ArbCall(shape, size, parent, psize) ==
    [shape |-> shape, size |-> size, parent |-> parent, psize |-> psize]

\* the numbers of turns the loop for(i = 0; i < length; i++) can take with
\* length = this.randomRange(0, s), at least 0 and below s (above s and at
\* most 0 when s is negative, NaN when s is): up to `most` of them
Turns(s, most) ==
    IF s.isNumber /\ s.n > 0 THEN 0..(IF s.n < most THEN s.n ELSE most) ELSE {0}

\* `turns` times the calls `calls`
RECURSIVE Repeated(_, _)
Repeated(calls, turns) == IF turns = 0 THEN <<>> ELSE calls \o Repeated(calls, turns - 1)

\* the calls of arb that arb(shape, s) makes, in order, when its loop takes
\* `turns` turns and this.oneOf(types) is `picked`
arbCalls(shape, s, turns, picked) ==
    LET made(type, size) == <<ArbCall(type, size, shape, s)>>
    IN  CASE Head(shape) = "arrayOf" -> Repeated(made(Tail(shape), Minus1(s)), turns)
          [] Head(shape) = "objectLike" -> made(Tail(shape), NoSize)
          [] Head(shape) = "AnyVal" -> made(<<picked>>, Minus1(s))
          [] Head(shape) = "Array" -> made(<<"arrayOf", "AnyVal">>, Minus1(s))
          [] Head(shape) = "Object" ->
               Repeated(made(<<"String">>, Minus1(s))
                            \o made(<<"arrayOf", "AnyVal">>, Minus1(s)), turns)
          [] Head(shape) = "String" -> made(<<"arrayOf", "Char">>, Minus1(s))
          [] OTHER -> <<>>

(***************************************************************************)
(* equal of the bilby environment, on plain values.  An array holds its    *)
(* elements as values; a string holds the codes of its characters.         *)
(***************************************************************************)
\* b[i], counting from 1
ElemAt(b, i) == IF b.kind = "string" THEN Str(<<b.elems[i]>>) ELSE b.elems[i]

\* b.length as a loop bound: a number for an array or a string, and
\* undefined for the other values, which ends the loop at once
lengthOf(b) == IF b.kind \in {"array", "string"} THEN Len(b.elems) ELSE 0

\* zip(a, b) with every array as long as the longer one, the elements
\* that are missing being undefined
zip_longest(a, b) ==
    LET la == Len(a.elems)
        lb == lengthOf(b)
    IN  [i \in 1..(IF la > lb THEN la ELSE lb) |->
            <<IF i <= la THEN a.elems[i] ELSE Undef,
              IF i <= lb THEN ElemAt(b, i) ELSE Undef>>]
\* function zip(a, b), a being an array
zip(a, b) ==
    LET la == Len(a.elems)
        lb == lengthOf(b)
    IN  [i \in 1..(IF la < lb THEN la ELSE lb) |-> <<a.elems[i], ElemAt(b, i)>>]

\* a === b for a boolean, a number or a string a
strictEquals(a, b) == a.kind = b.kind /\ a.elems = b.elems

\* env.equal(a, b): the registrations for a boolean, a number, a string and
\* an array, in this order, and the error of findRegistered for the rest.
\* foldEqual is env.fold(pairs, accum, function(a, t) { return a &&
\* env.equal(t[0], t[1]); })
RECURSIVE equal(_, _), foldEqual(_, _)
equal(a, b) ==
    CASE a.kind \in {"boolean", "number", "string"} -> Res(Bool(strictEquals(a, b)), <<>>)
      [] a.kind = "array" ->
           IF b.kind = "undefined"
             THEN Raise("TypeError: Cannot read property 'length' of undefined", <<>>)
             ELSE foldEqual(zip(a, b), TRUE)
      [] OTHER -> Raise("Method not implemented for this input", <<>>)
foldEqual(pairs, accum) ==
    IF pairs = <<>> THEN Res(Bool(accum), <<>>)
    ELSE IF ~accum THEN foldEqual(Tail(pairs), FALSE)
    ELSE LET r == equal(Head(pairs)[1], Head(pairs)[2])
         IN  IF r.ok THEN foldEqual(Tail(pairs), r.value = Bool(TRUE)) ELSE r

\* the program holds no value of a data structure
NoData ==
    /\ held = <<>>
    /\ trace = <<>>
    /\ step = <<>>

\* the program has made no sum
NoSum ==
    /\ sum = <<>>
    /\ values = {}
    /\ done = NoSumLabel

(***************************************************************************)
(* Object literals a caller passes to environment() and envConcat().       *)
(* A literal is <<methods, properties>>; methods lists <<name, array>>.    *)
(***************************************************************************)
LitNames == {"negate"}

MethodLits ==
    {<<>>} \cup
    {<< <<n, <<Registration(p, f)>> >> >> : n \in LitNames, p \in Preds, f \in Impls}
PropLits == {<< <<n, v>> >> : n \in LitNames, v \in PropVals}

Literals == {<<m, <<>>>> : m \in MethodLits} \cup {<<<<>>, p>> : p \in PropLits}

\* evaluating the literal: its arrays, then the two objects
RECURSIVE allocArrays(_, _, _, _)
allocArrays(h, m, k, pairs) ==
    IF k > Len(m) THEN [heap |-> h, pairs |-> pairs]
    ELSE allocArrays(Append(h, ArrayCell(m[k][2])), m, k + 1,
                     Put(pairs, m[k][1], JSRef(Len(h) + 1)))

\* the heap after the literal is built; its objects are the last two cells
allocLiteral(h, lit) ==
    LET a == allocArrays(h, lit[1], 1, <<>>)
    IN  a.heap \o <<ObjectCell(a.pairs), ObjectCell(lit[2])>>

(***************************************************************************)
(* The program: it builds environments, keeps the references in envs,      *)
(* extends and merges the environments it holds and calls their            *)
(* multimethods.  last records the operation just made and its outcome.    *)
(***************************************************************************)
NoLit == <<<<>>, <<>>>>

Label(op, env, other, name, predicate, f, value, lit, args, out) ==
    [args |-> args, predicate |-> predicate, f |-> f, name |-> name,
     out |-> out, value |-> value, op |-> op, other |-> other,
     lit |-> lit, env |-> env]

\* the heap and the reference after environment(methods, properties) on lit
constructed(h, lit) ==
    LET h1 == allocLiteral(h, lit)
    IN  environment(h, h1, Len(h1) - 1, Len(h1))

NoLabel == Label("init", 0, 0, "", "", "", JSUndefined, NoLit, NoArgs, Returned(0))

\* the program has made environment()
Init ==
    /\ heap = constructed(<<>>, NoLit).heap
    /\ envs = <<constructed(<<>>, NoLit).out.ref>>
    /\ last = NoLabel
    /\ NoSum
    /\ NoData

\* An operation that throws, and a call, leave heap and envs as they were,
\* so the state after several of them in a row is the state after the last
\* one alone: they are taken from the states in which the last operation
\* returned an environment, which loses no state.
Settled == last.out.tag = "returned"

\* the effect of an operation that returns an environment or throws, for a
\* program that holds at most cap environments
Extend(cap, r, label) ==
    /\ Settled \/ Len(envs) < cap
    /\ r.out.tag = "returned" => Len(envs) < cap
    /\ r.out.tag = "thrown" => Settled
    /\ heap' = r.heap
    /\ envs' = IF r.out.tag = "returned" THEN Append(envs, r.out.ref) ELSE envs
    /\ last' = label
    /\ UNCHANGED sumVars
    /\ UNCHANGED dataVars

\* envs[i].method(name, predicate, f)
Method(cap, i, name, predicate, f) ==
    LET r == method(heap, envs[i], name, predicate, f)
    IN  Extend(cap, r, Label("method", i, 0, name, predicate, f, JSUndefined,
                             NoLit, NoArgs, r.out))

\* envs[i].property(name, value)
Property(cap, i, name, value) ==
    LET r == property(heap, envs[i], name, value)
    IN  Extend(cap, r, Label("property", i, 0, name, "", "", value,
                             NoLit, NoArgs, r.out))

\* envs[i].envConcat(extraMethods, extraProperties) on a literal
EnvConcat(cap, i, lit) ==
    LET h == allocLiteral(heap, lit)
        r == envConcat(heap, h, envs[i], Len(h) - 1, Len(h))
    IN  Extend(cap, r, Label("envConcat", i, 0, "", "", "", JSUndefined,
                             lit, NoArgs, r.out))

\* envs[i].envAppend(envs[j])
EnvAppend(cap, i, j) ==
    LET r == envAppend(heap, envs[i], envs[j])
    IN  Extend(cap, r, Label("envAppend", i, j, "", "", "", JSUndefined,
                             NoLit, NoArgs, r.out))

\* envs[i][name](args...)
Call(i, name, args) ==
    /\ Settled
    /\ last' = Label("call", i, 0, name, "", "", JSUndefined, NoLit, args,
                     call(heap, envs[i], name, args))
    /\ UNCHANGED <<heap, envs>>
    /\ UNCHANGED sumVars
    /\ UNCHANGED dataVars

\* names a multimethod is called under
CallNames == Names \ {"method"}

(***************************************************************************)
(* Spec: a program that starts from environment() and holds up to MaxEnvs  *)
(* environments.                                                           *)
(***************************************************************************)
Next ==
    \/ \E i \in 1..Len(envs), name \in Names, predicate \in Preds, f \in Impls :
           Method(MaxEnvs, i, name, predicate, f)
    \/ \E i \in 1..Len(envs), name \in Names, value \in PropVals :
           Property(MaxEnvs, i, name, value)
    \/ \E i \in 1..Len(envs), lit \in Literals : EnvConcat(MaxEnvs, i, lit)
    \/ \E i \in 1..Len(envs), j \in 1..Len(envs) : EnvAppend(MaxEnvs, i, j)
    \/ \E i \in 1..Len(envs), name \in CallNames, args \in ArgLists :
           Call(i, name, args)

Spec == Init /\ [][Next]_vars

(***************************************************************************)
(* SpecMerge: a program that starts from two environments made from        *)
(* literals, to merge them.                                                *)
(***************************************************************************)
InitMerge ==
    \E la \in Literals, le \in Literals :
        LET a == constructed(<<>>, la)
            e == constructed(a.heap, le)
        IN  /\ a.out.tag = "returned"
            /\ e.out.tag = "returned"
            /\ heap = e.heap
            /\ envs = <<a.out.ref, e.out.ref>>
            /\ last = NoLabel
            /\ NoSum
            /\ NoData

SpecMerge == InitMerge /\ [][Next]_vars

(***************************************************************************)
(* SpecDeep: longer chains of extensions of one multimethod, from one      *)
(* environment made from a literal.                                        *)
(***************************************************************************)
\* number of environment references the program of SpecDeep holds
MaxDeepEnvs == 4

DeepLits ==
    {NoLit,
     << << <<"negate", <<Registration("isBoolean", "f")>> >> >>, <<>> >>,
     << << <<"negate", <<Registration("isNumber", "g")>> >> >>, <<>> >>}

InitDeep ==
    \E lit \in DeepLits :
        /\ heap = constructed(<<>>, lit).heap
        /\ envs = <<constructed(<<>>, lit).out.ref>>
        /\ last = NoLabel
        /\ NoSum
        /\ NoData

NextDeep ==
    \/ \E i \in 1..Len(envs), predicate \in Preds, f \in Impls :
           Method(MaxDeepEnvs, i, "negate", predicate, f)
    \/ \E i \in 1..Len(envs), lit \in DeepLits : EnvConcat(MaxDeepEnvs, i, lit)
    \/ \E i \in 1..Len(envs), args \in ArgLists : Call(i, "negate", args)

SpecDeep == InitDeep /\ [][NextDeep]_vars

(***************************************************************************)
(* SpecSum: a program that has made one tagged sum, builds values of it    *)
(* and eliminates them with cata.                                          *)
(***************************************************************************)
\* definitions = taggedSum(constructors)
taggedSum(constructors) == constructors

InitSum ==
    /\ heap = <<>>
    /\ envs = <<>>
    /\ last = NoLabel
    /\ sum \in {taggedSum(constructors) : constructors \in Sums}
    /\ values = {}
    /\ done = NoSumLabel
    /\ NoData

\* sum[name](arguments...)
Construct(name, arguments) ==
    LET r == tagged(name, FieldsOf(sum, name), arguments)
    IN  /\ r.out.tag = "returned" => Cardinality(values \cup {r.this}) <= MaxValues
        /\ values' = IF r.out.tag = "returned" THEN values \cup {r.this} ELSE values
        /\ done' = SumLabel("construct", name, arguments, r.this, <<>>, r.out)
        /\ UNCHANGED <<sum, envVars, dataVars>>

\* this.cata(dispatches)
Cata(this, dispatches) ==
    /\ done' = SumLabel("cata", this.name, <<>>, this, dispatches,
                        makeCata(sum, FieldsOf(sum, this.name), this.name,
                                 this, dispatches))
    /\ UNCHANGED <<sum, values, envVars, dataVars>>

NextSum ==
    \/ \E name \in Keys(sum), arguments \in FieldLists : Construct(name, arguments)
    \/ \E this \in values, dispatches \in Tables : Cata(this, dispatches)

SpecSum == InitSum /\ [][NextSum]_vars

(***************************************************************************)
(* SpecData: a program that builds an Option, an Either or a Validation    *)
(* and applies up to MaxOps operations to it.                              *)
(***************************************************************************)
Arrays == {Arr(e) : e \in UNION {[1..n -> {1, 2}] : n \in 0..MaxElems}}
CallerFunctions == {Fn(f, <<>>) : f \in Functions}

\* the values the constructors are applied to: errors and the values of a
\* left are arrays
DataValues ==
    {Wrap(type, x) : type \in {"some", "left", "right", "success", "failure"},
                     x \in Arrays}
        \cup {Wrap(type, f) : type \in {"some", "right", "success"},
                              f \in CallerFunctions}
        \cup {Wrap("none", Undef)}

\* the data structure a value is of
Family(v) ==
    CASE v.type \in {"some", "none"} -> "Option"
      [] v.type \in {"left", "right"} -> "Either"
      [] v.type \in {"success", "failure"} -> "Validation"
      [] OTHER -> v.type

\* an operation applied to the held value, with its argument and result
Op(op, this, arg, out) == [this |-> this, out |-> out, op |-> op, arg |-> arg]

InitNoEnv ==
    /\ heap = <<>>
    /\ envs = <<>>
    /\ last = NoLabel
    /\ NoSum

InitData ==
    /\ InitNoEnv
    /\ held \in DataValues
    /\ trace = <<>>
    /\ step = <<>>

\* the program goes on while nothing has thrown
Running(bound) ==
    /\ Len(step) < bound
    /\ step # <<>> => step[Len(step)].out.ok

\* the effect of an operation on the held value
Effect(op, arg, r) ==
    /\ held' = IF r.ok THEN r.value ELSE held
    /\ trace' = trace \o r.calls
    /\ step' = Append(step, Op(op, held, arg, r))
    /\ UNCHANGED <<envVars, sumVars>>

\* env.map(held, f)
MapOp(f) ==
    /\ Running(MaxOps)
    /\ held.type # "plain"
    /\ Effect("map", f, map(held, f))

\* env.ap(held, v)
ApOp(v) ==
    /\ Running(MaxOps)
    /\ held.type # "plain"
    /\ Family(v) = Family(held)
    /\ Effect("ap", v, ap(held, v))

\* env.append(held, v)
AppendOp(v) ==
    /\ Running(MaxOps)
    /\ Family(v) = Family(held)
    /\ Effect("append", v, append(held, v))

\* held.getOrElse(x)
GetOrElseOp(x) ==
    /\ Running(MaxOps)
    /\ Family(held) = "Option"
    /\ Effect("getOrElse", x, getOrElse(held, x))

NextData ==
    \/ \E f \in CallerFunctions : MapOp(f)
    \/ \E v \in DataValues : ApOp(v)
    \/ \E v \in DataValues \cup Arrays : AppendOp(v)
    \/ \E x \in Arrays : GetOrElseOp(x)

SpecData == InitData /\ [][NextData]_vars

(***************************************************************************)
(* SpecIO: a program that makes io(thunk), composes it with flatMap, maps  *)
(* it and performs it, up to MaxIOOps operations.                          *)
(***************************************************************************)
MaxIOOps == 4

InitIO ==
    /\ InitNoEnv
    /\ held \in {IO(t, <<>>, <<>>) : t \in Thunks}
    /\ trace = <<>>
    /\ step = <<>>

\* held = env.flatMap(held, g), g the caller's function of that name
FlatMapOp(g) ==
    /\ Running(MaxIOOps)
    /\ Effect("flatMap", Fn(g, <<>>), flatMap(held, Fn(g, <<>>)))

\* held.perform(); the program keeps the IO
PerformOp ==
    /\ Running(MaxIOOps)
    /\ trace' = trace \o perform(held).calls
    /\ step' = Append(step, Op("perform", held, Undef, perform(held)))
    /\ UNCHANGED <<held, envVars, sumVars>>

\* env.map(held, f); the program keeps the IO
MapIOOp(f) ==
    /\ Running(MaxIOOps)
    /\ trace' = trace \o map(held, f).calls
    /\ step' = Append(step, Op("map", held, f, map(held, f)))
    /\ UNCHANGED <<held, envVars, sumVars>>

NextIO ==
    \/ \E g \in IOFunctions : FlatMapOp(g)
    \/ PerformOp
    \/ \E f \in CallerFunctions : MapIOOp(f)

SpecIO == InitIO /\ [][NextIO]_vars

(***************************************************************************)
(* SpecLens: a program that has one object, runs object lenses on the      *)
(* objects it has and sets through the store it got last, up to MaxLensOps *)
(* operations.  held is the store.                                         *)
(***************************************************************************)
MaxLensOps == 4

LensKeys == {"a", "b", "c"}
LensVals == {JSNumber(1), JSNumber(2)}
\* the object literals the program starts from
LensObjects ==
    {<<>>} \cup {<< <<k, v>> >> : k \in {"a", "b"}, v \in LensVals}
          \cup {<< <<"a", v>>, <<"b", w>> >> : v \in LensVals, w \in LensVals}
          \cup {<< <<"b", v>>, <<"a", w>> >> : v \in LensVals, w \in LensVals}

InitLens ==
    /\ envs = <<>>
    /\ last = NoLabel
    /\ NoSum
    /\ heap \in {<<ObjectCell(o)>> : o \in LensObjects}
    /\ held = NoStore
    /\ trace = <<>>
    /\ step = <<>>

\* the objects the program has a reference to: the first and those the
\* setters returned
Referenced == {1} \cup {step[j].out : j \in {i \in 1..Len(step) : step[i].op = "set"}}

\* held = objectLens(k).run(o); before is o as it was then
RunOp(k, o) ==
    /\ Len(step) < MaxLensOps
    /\ held' = objectLensRun(heap, k, o)
    /\ step' = Append(step, [this |-> objectLensRun(heap, k, o), out |-> o,
                             op |-> "run", arg |-> JSUndefined,
                             before |-> heap[o].pairs])
    /\ UNCHANGED <<heap, trace, envs, last, sumVars>>

\* held.setter(v); before is the object of the store as it was then
SetOp(v) ==
    /\ Len(step) < MaxLensOps
    /\ held # NoStore
    /\ heap' = setter(heap, held, v).heap
    /\ step' = Append(step, [this |-> held, out |-> setter(heap, held, v).ref, op |-> "set",
                             arg |-> v,
                             before |-> heap[held.o].pairs])
    /\ UNCHANGED <<held, trace, envs, last, sumVars>>

NextLens ==
    \/ \E k \in LensKeys, o \in Referenced : RunOp(k, o)
    \/ \E v \in LensVals \cup {held.getter} : SetOp(v)

SpecLens == InitLens /\ [][NextLens]_vars

(***************************************************************************)
(* SpecTrampoline: trampoline(bounce) on a chain of up to MaxChain cont    *)
(* steps, one action per test of the loop, per body and for the return.    *)
(* held is the variable bounce, trace the thunks called, step the position *)
(* in trampoline with the chain it was called on.  The call runs to its    *)
(* end: the steps of the loop are weakly fair.                             *)
(***************************************************************************)
MaxChain == 8

InitTrampoline ==
    /\ InitNoEnv
    /\ \E n \in 0..MaxChain, r \in Arrays :
           /\ held = ChainOf(n, r)
           /\ step = [n |-> n, r |-> r, frames |-> 1, pc |-> "while",
                      iterations |-> 0, returned |-> Undef]
    /\ trace = <<>>

\* while(!bounce.isDone)
TestBounce ==
    /\ step.pc = "while"
    /\ step' = [step EXCEPT !.pc = IF held.isDone THEN "return" ELSE "body"]
    /\ UNCHANGED <<held, trace, envVars, sumVars>>

\* bounce = bounce.thunk()
CallBounce ==
    /\ step.pc = "body"
    /\ LET b == trampolineBody(held, step.frames, step.n, step.r)
       IN  /\ held' = b.bounce
           /\ trace' = trace \o b.called
           /\ step' = [step EXCEPT !.pc = "while", !.frames = b.frames,
                                   !.iterations = @ + 1]
    /\ UNCHANGED <<envVars, sumVars>>

\* return bounce.result
ReturnResult ==
    /\ step.pc = "return"
    /\ step' = [step EXCEPT !.pc = "done", !.returned = held.result]
    /\ UNCHANGED <<held, trace, envVars, sumVars>>

NextTrampoline == TestBounce \/ CallBounce \/ ReturnResult

SpecTrampoline ==
    InitTrampoline /\ [][NextTrampoline]_vars /\ WF_vars(NextTrampoline)

(***************************************************************************)
(* SpecForAll: one call forAll(property, args) of the bilby environment,   *)
(* one action per trial and per candidate of findSmallest.  held is the    *)
(* variables inputs, shrunken, smallest and args, step the position in     *)
(* forAll and findSmallest with the call's arguments and its result, trace *)
(* the generations and the applications of property.                       *)
(***************************************************************************)
ShapeLists == UNION {[1..n -> Shapes] : n \in 1..MaxShapes}

\* inputs = generateInputs(this, args, size) and property applied to them
Generated(size, holds) ==
    [args |-> <<>>, ev |-> "trial", size |-> size, holds |-> holds, pos |-> 0,
     cand |-> 0]
\* property applied to args, candidate j of position i in place (1-based)
Tried(i, j, args, holds) ==
    [args |-> args, ev |-> "candidate", size |-> 0, holds |-> holds, pos |-> i,
     cand |-> j]

InitForAll ==
    /\ InitNoEnv
    /\ held = [args |-> <<>>, inputs |-> <<>>, smallest |-> <<>>, shrunken |-> <<>>]
    /\ trace = <<>>
    /\ \E prop \in Properties, args \in ShapeLists :
           step = [i |-> 0, property |-> prop, result |-> Pending, pc |-> "forAll",
                   pos |-> 0, cand |-> 0, shapes |-> args]

\* one turn of the loop of forAll: the inputs of trial i and the test
Trial ==
    /\ step.pc = "forAll"
    /\ step.i < goal
    /\ \E inputs \in generateInputs(step.shapes, step.i) :
           LET holds == propertyHolds(step.property, inputs)
           IN  /\ held' = [held EXCEPT !.inputs = inputs]
               /\ trace' = Append(trace, Generated(step.i, holds))
               /\ step' = IF holds THEN [step EXCEPT !.i = @ + 1]
                          ELSE [step EXCEPT !.pc = "findSmallest"]
    /\ UNCHANGED <<envVars, sumVars>>

\* return none, after the loop
ReturnNone ==
    /\ step.pc = "forAll"
    /\ step.i >= goal
    /\ step' = [step EXCEPT !.pc = "returned", !.result = NoneReport]
    /\ UNCHANGED <<held, trace, envVars, sumVars>>

\* the declarations of findSmallest, and i = 0 with the args of position 0
MapShrink ==
    /\ step.pc = "findSmallest"
    /\ LET r == mapShrink(held.inputs)
       IN  IF r.ok
           THEN /\ held' = [held EXCEPT !.shrunken = r.value,
                                        !.smallest = held.inputs,
                                        !.args = argsOf(held.inputs, held.inputs)]
                /\ step' = [step EXCEPT !.pc = "scan", !.pos = 1, !.cand = 1]
           ELSE /\ held' = held
                /\ step' = [step EXCEPT !.pc = "thrown",
                                        !.result = ThrownReport(r.error)]
    /\ UNCHANGED <<trace, envVars, sumVars>>

\* one turn of the inner loop: candidate j of position i is put in args and
\* property applied; break when it holds, else the candidate is the smallest
Candidate ==
    /\ step.pc = "scan"
    /\ step.pos <= Len(held.shrunken)
    /\ step.cand <= held.shrunken[step.pos].length
    /\ LET t == tryCandidate(step.property, held.smallest, held.args, step.pos,
                             At(held.shrunken[step.pos], step.cand))
       IN  /\ trace' = Append(trace, Tried(step.pos, step.cand, t.args, t.holds))
           /\ IF t.holds
              THEN /\ held' = [held EXCEPT !.smallest = t.smallest,
                                           !.args = argsOf(t.smallest, held.inputs)]
                   /\ step' = [step EXCEPT !.pos = @ + 1, !.cand = 1]
              ELSE /\ held' = [held EXCEPT !.smallest = t.smallest,
                                           !.args = t.args]
                   /\ step' = [step EXCEPT !.cand = @ + 1]
    /\ UNCHANGED <<envVars, sumVars>>

\* the inner loop ends without break: the next position, args a copy of
\* smallest
NextPosition ==
    /\ step.pc = "scan"
    /\ step.pos <= Len(held.shrunken)
    /\ step.cand > held.shrunken[step.pos].length
    /\ held' = [held EXCEPT !.args = argsOf(held.smallest, held.inputs)]
    /\ step' = [step EXCEPT !.pos = @ + 1, !.cand = 1]
    /\ UNCHANGED <<trace, envVars, sumVars>>

\* return smallest, and forAll's return some(failureReporter(..., i))
ReturnSome ==
    /\ step.pc = "scan"
    /\ step.pos > Len(held.shrunken)
    /\ step' = [step EXCEPT !.pc = "returned",
                            !.result = SomeReport(failureReporter(held.smallest, step.i))]
    /\ UNCHANGED <<held, trace, envVars, sumVars>>

NextForAll ==
    Trial \/ ReturnNone \/ MapShrink \/ Candidate \/ NextPosition \/ ReturnSome

SpecForAll == InitForAll /\ [][NextForAll]_vars

(***************************************************************************)
(* SpecShrink: one call shrink(v) of the bilby environment on a number, a  *)
(* boolean, an object, or a string or an array of up to MaxLength          *)
(* elements.  held is v, step the call's result.                           *)
(***************************************************************************)
MaxLength == 4

Lists == UNION {[1..n -> {1, 2}] : n \in 0..MaxLength}
ShrinkInputs ==
    {Str(e) : e \in Lists} \cup {Arr(e) : e \in Lists}
        \cup {Num(n) : n \in -MaxNumber..MaxNumber} \cup {Bool(TRUE), Bool(FALSE), Obj}

InitShrink ==
    /\ InitNoEnv
    /\ held \in ShrinkInputs
    /\ trace = <<>>
    /\ step = <<>>

\* step = env.shrink(held)
ShrinkOp ==
    /\ step = <<>>
    /\ step' = <<shrink(held)>>
    /\ UNCHANGED <<held, trace, envVars, sumVars>>

NextShrink == ShrinkOp

SpecShrink == InitShrink /\ [][NextShrink]_vars

(***************************************************************************)
(* SpecCompose: a program that has an object w (at 1) and an object part   *)
(* (at 2) that w may hold under its keys, runs the lens                    *)
(* objectLens(k2).compose(objectLens(k1)) on w and sets through the store  *)
(* it got.  held is the store; step has the keys, the two objects as they  *)
(* were before the lens ran, the value set and the object returned.        *)
(***************************************************************************)
\* the object literals w: every key of it is bound to part or to a number
Wholes ==
    {<<>>} \cup {<< <<k, v>> >> : k \in {"a", "b"}, v \in {JSRef(2), JSNumber(1)}}
          \cup {<< <<"a", v>>, <<"b", x>> >> : v, x \in {JSRef(2), JSNumber(1)}}

ComposeStep(pc, k1, k2, w, part, arg, out) ==
    [out |-> out, arg |-> arg, w |-> w, k2 |-> k2, k1 |-> k1, pc |-> pc, part |-> part]

InitCompose ==
    /\ envs = <<>>
    /\ last = NoLabel
    /\ NoSum
    /\ heap \in {<<ObjectCell(w), ObjectCell(o)>> : w \in Wholes, o \in LensObjects}
    /\ held = NoComposed
    /\ trace = <<>>
    /\ step = ComposeStep("start", "", "", heap[1].pairs, heap[2].pairs, JSUndefined, 0)

\* held = objectLens(k2).compose(objectLens(k1)).run(w), or a TypeError
ComposeRunOp(k2, k1) ==
    /\ step.pc = "start"
    /\ held' = composeRun(heap, k2, k1, 1)
    /\ step' = [step EXCEPT !.pc = IF composeRun(heap, k2, k1, 1).ok THEN "ran" ELSE "thrown",
                            !.k1 = k1, !.k2 = k2]
    /\ UNCHANGED <<heap, trace, envs, last, sumVars>>

\* held.setter(v)
ComposeSetOp(v) ==
    /\ step.pc = "ran"
    /\ heap' = composedSetter(heap, held, v).heap
    /\ step' = [step EXCEPT !.pc = "set", !.arg = v,
                            !.out = composedSetter(heap, held, v).ref]
    /\ UNCHANGED <<held, trace, envs, last, sumVars>>

NextCompose ==
    \/ \E k2 \in LensKeys, k1 \in LensKeys : ComposeRunOp(k2, k1)
    \/ \E v \in LensVals : ComposeSetOp(v)

SpecCompose == InitCompose /\ [][NextCompose]_vars

(***************************************************************************)
(* SpecDo: a program that opens Do scopes, one inside the argument of the  *)
(* other, has valueOf called on objects that Do.setValueOf changed, and    *)
(* calls the functions that Do() returned, the innermost first.  held is   *)
(* doQueue; step has the oldDoQueue of every scope whose function was not  *)
(* called yet, what happened last, the oldDoQueue of the function that     *)
(* finished last, and whether an error is on its way out.  An error that    *)
(* leaves the argument of a scope has the function of this scope never     *)
(* called; the program may catch it before.                                *)
(***************************************************************************)
MaxScopes == 2
MaxQueue == 2

DoOperands == {1, 2}
DoArguments ==
    {JSBoolean(TRUE), JSBoolean(FALSE), JSUndefined} \cup {JSNumber(n) : n \in 0..MaxQueue}

DoStep(ev, scopes, saved, raised) ==
    [ev |-> ev, scopes |-> scopes, saved |-> saved, raised |-> raised]

InitDo ==
    /\ InitNoEnv
    /\ held = NoQueue
    /\ trace = <<>>
    /\ step = DoStep("init", <<>>, NoQueue, FALSE)

\* Do()
DoOp ==
    /\ ~step.raised
    /\ Len(step.scopes) < MaxScopes
    /\ held' = Queue(<<>>)
    /\ step' = DoStep("do", Append(step.scopes, held), step.saved, FALSE)
    /\ UNCHANGED <<trace, envVars, sumVars>>

\* x.valueOf(), valueOf being the function Do.setValueOf made
ValueOfOp(x) ==
    /\ ~step.raised
    /\ Len(held.items) < MaxQueue
    /\ held' = IF held.defined THEN Queue(Append(held.items, x)) ELSE held
    /\ step' = [step EXCEPT !.ev = IF held.defined THEN "pushed" ELSE "original"]
    /\ UNCHANGED <<trace, envVars, sumVars>>

\* the function of the innermost scope is called with n
DoFinish(n, throws) ==
    /\ ~step.raised
    /\ step.scopes # <<>>
    /\ held.defined
    /\ LET old == step.scopes[Len(step.scopes)]
           end == doBody(n, held, old, throws)
       IN  /\ held' = end.queue
           /\ step' = DoStep(end.ev, SubSeq(step.scopes, 1, Len(step.scopes) - 1),
                             old, end.ev # "returned")
    /\ UNCHANGED <<trace, envVars, sumVars>>

\* the error leaves the argument of the enclosing scope, or the program
\* when there is none
Propagate ==
    /\ step.raised
    /\ step' = [step EXCEPT !.ev = "propagated",
                            !.scopes = SubSeq(step.scopes, 1, Len(step.scopes) - 1),
                            !.raised = step.scopes # <<>>]
    /\ UNCHANGED <<held, trace, envVars, sumVars>>

\* the program catches the error
Catch ==
    /\ step.raised
    /\ step' = [step EXCEPT !.ev = "caught", !.raised = FALSE]
    /\ UNCHANGED <<held, trace, envVars, sumVars>>

NextDo ==
    \/ DoOp
    \/ \E x \in DoOperands : ValueOfOp(x)
    \/ \E n \in DoArguments, throws \in BOOLEAN : DoFinish(n, throws)
    \/ Propagate
    \/ Catch

SpecDo == InitDo /\ [][NextDo]_vars

(***************************************************************************)
(* SpecShow: the server takes up to MaxRequests requests to /show and      *)
(* /show/:id, one after the other.  held is the request at hand, step what *)
(* its handler did, trace the number of res.json calls of every request    *)
(* that is over.  The pool gives a connection or an error, and the         *)
(* database gives the query an error, with or without results, or the      *)
(* rows.                                                                   *)
(***************************************************************************)
MaxRequests == 3
MaxRows == 2

Routes == {"/show", "/show/:id"}
RowLists == UNION {[1..n -> {1, 2}] : n \in 0..MaxRows}
ShowStep(pc, err, results, calls, reads, thrown) ==
    [read |-> reads, calls |-> calls, err |-> err, results |-> results, thrown |-> thrown,
     pc |-> pc]
Idle == ShowStep("idle", FALSE, NoResults, <<>>, FALSE, "")

InitShow ==
    /\ InitNoEnv
    /\ held = ""
    /\ trace = <<>>
    /\ step = Idle

\* router.get(route, function(req, res) { req.getConnection(...) })
Request(route) ==
    /\ step.pc \in {"idle", "answered", "thrown"}
    /\ Len(trace) + (IF step.pc = "idle" THEN 0 ELSE 1) < MaxRequests
    /\ held' = route
    /\ trace' = IF step.pc = "idle" THEN trace ELSE Append(trace, Len(step.calls))
    /\ step' = [Idle EXCEPT !.pc = "connecting"]
    /\ UNCHANGED <<envVars, sumVars>>

\* function(err, dbh) { if (err) throw err; dbh.query(...) }
GetConnection(err) ==
    /\ step.pc = "connecting"
    /\ step' = [step EXCEPT !.pc = IF err THEN "thrown" ELSE "querying",
                            !.thrown = IF err THEN "err" ELSE ""]
    /\ UNCHANGED <<held, trace, envVars, sumVars>>

\* function(err, results) { ... } of dbh.query
QueryCallback(err, results) ==
    /\ step.pc = "querying"
    /\ LET end == queryCallback(held, err, results)
       IN  step' = ShowStep(IF end.thrown = "" THEN "answered" ELSE "thrown",
                            err, results, end.calls, end.read, end.thrown)
    /\ UNCHANGED <<held, trace, envVars, sumVars>>

NextShow ==
    \/ \E route \in Routes : Request(route)
    \/ \E err \in BOOLEAN : GetConnection(err)
    \/ \E err \in BOOLEAN, results \in {NoResults} \cup {Results(r) : r \in RowLists} :
          (err \/ results.defined) /\ QueryCallback(err, results)

SpecShow == InitShow /\ [][NextShow]_vars

(***************************************************************************)
(* SpecEqual: one call env.equal(a, b) on two arrays.  held is <<a, b>>    *)
(* and step the outcome of the call.                                       *)
(***************************************************************************)
MaxArray == 2

Elements ==
    {Num(1), Num(2), Str(<<1>>), Obj, Undef,
     Arr(<<>>), Arr(<<Num(1)>>), Arr(<<Num(1), Num(2)>>)}
EqualInputs == {Arr(e) : e \in UNION {[1..n -> Elements] : n \in 0..MaxArray}}

InitEqual ==
    /\ InitNoEnv
    /\ held \in EqualInputs \X EqualInputs
    /\ trace = <<>>
    /\ step = <<>>

\* step = env.equal(a, b)
EqualOp ==
    /\ step = <<>>
    /\ step' = <<equal(held[1], held[2])>>
    /\ UNCHANGED <<held, trace, envVars, sumVars>>

NextEqual == EqualOp

SpecEqual == InitEqual /\ [][NextEqual]_vars

(***************************************************************************)
(* SpecArb: one call arb(shape, size) of the bilby environment and the     *)
(* calls of arb it makes, one action per call.  held is the stack of the   *)
(* calls made and not begun, the next one first.  The call runs to its     *)
(* end: the steps are weakly fair.                                         *)
(***************************************************************************)
MaxSize == 3
MaxNesting == 2
MaxTurns == 2

Primitives == {"Boolean", "Number", "String"}
BaseShapes == Primitives \cup {"Char", "AnyVal", "Array", "Object"}
ArbShapes ==
    {w \o <<b>> : w \in UNION {[1..n -> {"arrayOf", "objectLike"}] : n \in 0..MaxNesting},
                  b \in BaseShapes}

InitArb ==
    /\ InitNoEnv
    /\ \E shape \in ArbShapes, n \in 0..MaxSize :
           held = <<ArbCall(shape, Size(n), <<>>, NoSize)>>
    /\ trace = <<>>
    /\ step = <<>>

\* the call on top of the stack runs up to its own calls of arb, which are
\* run next
Arb ==
    /\ held # <<>>
    /\ \E turns \in Turns(Head(held).size, MaxTurns), picked \in Primitives :
           held' = arbCalls(Head(held).shape, Head(held).size, turns, picked)
                       \o Tail(held)
    /\ UNCHANGED <<trace, step, envVars, sumVars>>

NextArb == Arb

SpecArb == InitArb /\ [][NextArb]_vars /\ WF_vars(NextArb)

(***************************************************************************)
(* Vocabulary of the properties.                                           *)
(***************************************************************************)
\* the names an environment (a cell address) has methods and properties for
MethodNames(e) == Keys(heap[heap[e].methods].pairs)
PropertyNames(e) == Keys(heap[heap[e].properties].pairs)

\* the array the multimethod e[name] scans, <<>> when e[name] is none
RegsOf(e, name) ==
    IF read(heap, e, name).kind = "multimethod"
    THEN heap[read(heap, e, name).v].elems
    ELSE <<>>

\* the positions of the registrations whose predicate is true for args
Matching(regs, args) ==
    {k \in 1..Len(regs) : regs[k].isReg /\ Holds(regs[k].predicate, args)}

Least(S) == CHOOSE k \in S : \A j \in S : k <= j

\* the pieces an error's message is made of
Parts(message) == {message[k] : k \in 1..Len(message)}

\* the last operation was a call of a multimethod
CalledMethod ==
    /\ last.op = "call"
    /\ read(heap, envs[last.env], last.name).kind = "multimethod"

\* the registrations scanned by the last call
CalledRegs == RegsOf(envs[last.env], last.name)

(***************************************************************************)
(* C1.  A call of a registered method name invokes the implementation of   *)
(* the first registration, in append order, whose predicate is true for    *)
(* the arguments, also when later registrations match; no implementation   *)
(* of a later registration is invoked.                                     *)
(***************************************************************************)
C1_FirstMatchInvoked ==
    (CalledMethod /\ Matching(CalledRegs, last.args) # {}) =>
        LET k == Least(Matching(CalledRegs, last.args))
        IN  last.out = Invoked(CalledRegs[k].f, last.args, k)

(***************************************************************************)
(* C2.  For a name n that names nothing on e, e.method(n, p, f) returns a  *)
(* new environment in which a call of n matching p invokes f, while e is   *)
(* unchanged: over every step each environment obtained before resolves    *)
(* every call, and reads every member, as it did, and a call of n on e     *)
(* still fails.                                                            *)
(***************************************************************************)
\* every environment held before the step behaves after it as before
FrameOfStep ==
    \A j \in 1..Len(envs) :
        /\ envs'[j] = envs[j]
        /\ \A n \in Names : read(heap', envs[j], n) = read(heap, envs[j], n)
        /\ \A n \in CallNames, args \in ArgLists :
               call(heap', envs[j], n, args) = call(heap, envs[j], n, args)

\* the step is e.method(n, p, f) returning, n naming nothing on e before
FreshMethodStep ==
    /\ last'.op = "method"
    /\ last'.out.tag = "returned"
    /\ read(heap, envs[last'.env], last'.name).kind = "undefined"

\* in the environment returned, a call of n matching p invokes f
NewResolves ==
    \A args \in ArgLists :
        Holds(last'.predicate, args) =>
            call(heap', last'.out.ref, last'.name, args) = Invoked(last'.f, args, 1)

\* as claimed: the call of n on e fails with findRegistered's error
C2_AsClaimed ==
    [][/\ FrameOfStep
       /\ FreshMethodStep =>
              /\ NewResolves
              /\ \A args \in ArgLists :
                     LET out == call(heap', envs[last'.env], last'.name, args)
                     IN  /\ out.tag = "thrown"
                         /\ out.type = "Error"
                         /\ out.message = <<"Method not implemented for this input">>]_vars

\* C2 as amended: the call of n on e fails with the engine's TypeError for
\* calling a member that e does not have
C2_MethodExtendsFresh ==
    [][/\ FrameOfStep
       /\ FreshMethodStep =>
              /\ NewResolves
              /\ \A args \in ArgLists :
                     call(heap', envs[last'.env], last'.name, args)
                         = NotAFunction(last'.name)]_vars

\* a method was added under a fresh name to an environment that has other
\* members, after an earlier extension
C2_Witness ==
    /\ last.op = "method"
    /\ last.out.tag = "returned"
    /\ Len(envs) = MaxEnvs
    /\ read(heap, envs[last.env], last.name).kind = "undefined"
    /\ MethodNames(envs[last.env]) # {}
    /\ \E args \in ArgLists :
           /\ call(heap, last.out.ref, last.name, args) = Invoked(last.f, args, 1)
           /\ call(heap, envs[last.env], last.name, args) = NotAFunction(last.name)

(***************************************************************************)
(* C3.  A call of a registered method with arguments for which no          *)
(* registration's predicate is true fails with the NoImplementation error, *)
(* which carries the method name and the argument count.                   *)
(***************************************************************************)
NoneMatches == CalledMethod /\ Matching(CalledRegs, last.args) = {}

\* as claimed
C3_AsClaimed ==
    NoneMatches =>
        /\ last.out.tag = "thrown"
        /\ last.out.type = "Error"
        /\ last.name \in Parts(last.out.message)
        /\ ToString(Len(last.args)) \in Parts(last.out.message)

\* C3 as amended: the call fails; a scan that reaches the end of the list
\* throws Error("Method not implemented for this input"), a fixed text with
\* neither the method name nor the argument count in it, and a scan that
\* meets an undefined entry of the list throws the engine's TypeError
C3_NoMatchThrows ==
    NoneMatches =>
        /\ last.out.tag = "thrown"
        /\ IF \A k \in 1..Len(CalledRegs) : CalledRegs[k].isReg
           THEN /\ last.out.type = "Error"
                /\ last.out.message = <<"Method not implemented for this input">>
                /\ last.name \notin Parts(last.out.message)
                /\ ToString(Len(last.args)) \notin Parts(last.out.message)
                /\ last.out.ran = Len(CalledRegs)
           ELSE last.out.type = "TypeError"

\* a call with two arguments found no match among two registrations
C3_Witness ==
    /\ NoneMatches
    /\ Len(last.args) = 2
    /\ Len(CalledRegs) = 2
    /\ \A k \in 1..Len(CalledRegs) : CalledRegs[k].isReg
    /\ last.out.type = "Error"

(***************************************************************************)
(* C4.  In every environment that was constructed the method names and the *)
(* property names are disjoint, and an extension or merge that would bring *)
(* a name under both kinds throws at registration time and returns no      *)
(* environment, whatever the property's value is, falsy values included.   *)
(***************************************************************************)
\* the keys of the object a literal's part writes
LitKeys(part) == {part[k][1] : k \in 1..Len(part)}

\* the method names and the property names the last operation would give
\* the environment it builds
WouldHaveMethods ==
    CASE last.op = "method" -> MethodNames(envs[last.env]) \cup {last.name}
      [] last.op = "property" -> MethodNames(envs[last.env])
      [] last.op = "envConcat" -> MethodNames(envs[last.env]) \cup LitKeys(last.lit[1])
      [] last.op = "envAppend" ->
             MethodNames(envs[last.env]) \cup MethodNames(envs[last.other])
      [] OTHER -> {}

WouldHaveProperties ==
    CASE last.op = "method" -> PropertyNames(envs[last.env])
      [] last.op = "property" -> PropertyNames(envs[last.env]) \cup {last.name}
      [] last.op = "envConcat" -> PropertyNames(envs[last.env]) \cup LitKeys(last.lit[2])
      [] last.op = "envAppend" ->
             PropertyNames(envs[last.env]) \cup PropertyNames(envs[last.other])
      [] OTHER -> {}

C4_MethodsAndPropertiesDisjoint ==
    /\ \A i \in 1..Len(envs) : MethodNames(envs[i]) \cap PropertyNames(envs[i]) = {}
    /\ (WouldHaveMethods \cap WouldHaveProperties # {}) =>
           /\ last.out.tag = "thrown"
           /\ last.out.type = "Error"
           /\ last.out.ref = 0
           /\ \E n \in WouldHaveMethods \cap WouldHaveProperties :
                  last.out.message = <<"Property", " ", n, " already in environment.">>

\* a falsy property was refused under the name of a method
C4_Witness ==
    /\ last.op = "property"
    /\ last.name \in MethodNames(envs[last.env])
    /\ ~Truthy(last.value)
    /\ last.out.tag = "thrown"

(***************************************************************************)
(* Vocabulary of the merges: the last operation was a merge that returned  *)
(* the environment Merged.                                                 *)
(***************************************************************************)
ConcatReturned == last.op = "envConcat" /\ last.out.tag = "returned"
AppendReturned == last.op = "envAppend" /\ last.out.tag = "returned"
Merged == last.out.ref

\* the array a literal's methods hold under name, <<>> when they hold none
LitRegs(lit, name) ==
    IF name \in LitKeys(lit[1])
    THEN lit[1][CHOOSE k \in 1..Len(lit[1]) : lit[1][k][1] = name][2]
    ELSE <<>>

(***************************************************************************)
(* C5.  In base.envConcat(extraMethods, extraProperties), for a name       *)
(* registered on both sides the base's registrations are tried before the  *)
(* extra ones: a call matched by a base predicate and by an extra          *)
(* predicate invokes the base implementation, and an extra implementation  *)
(* is invoked only when no base predicate matches.                         *)
(***************************************************************************)
C5_BaseBeforeExtra ==
    ConcatReturned =>
        \A n \in MethodNames(envs[last.env]) \cap LitKeys(last.lit[1]) :
            LET base == RegsOf(envs[last.env], n)
                extra == LitRegs(last.lit, n)
            IN  /\ RegsOf(Merged, n) = base \o extra
                /\ \A args \in ArgLists :
                       LET out == call(heap, Merged, n, args)
                       IN  /\ (Matching(base, args) # {} /\ Matching(extra, args) # {}) =>
                                  out = Invoked(base[Least(Matching(base, args))].f, args,
                                                Least(Matching(base, args)))
                           /\ (out.tag = "invoked" /\ out.ran > Len(base)) =>
                                  Matching(base, args) = {}

(***************************************************************************)
(* C6.  In a.envAppend(e), for a name registered in both, the              *)
(* registrations of a are tried before those of e, so that e's             *)
(* implementations act only as a fallback when no predicate of a matches.  *)
(***************************************************************************)
\* as claimed
C6_AsClaimed ==
    AppendReturned =>
        \A n \in MethodNames(envs[last.env]) \cap MethodNames(envs[last.other]) :
            LET a == RegsOf(envs[last.env], n)
                e == RegsOf(envs[last.other], n)
            IN  /\ RegsOf(Merged, n) = a \o e
                /\ \A args \in ArgLists :
                       LET out == call(heap, Merged, n, args)
                       IN  (out.tag = "invoked" /\ out.ran > Len(a)) =>
                               Matching(a, args) = {}

\* C6 as amended: the registrations of e are tried before those of a, so
\* that a's implementations act only as a fallback when no predicate of e
\* matches
C6_ArgumentBeforeReceiver ==
    AppendReturned =>
        \A n \in MethodNames(envs[last.env]) \cap MethodNames(envs[last.other]) :
            LET a == RegsOf(envs[last.env], n)
                e == RegsOf(envs[last.other], n)
            IN  /\ RegsOf(Merged, n) = e \o a
                /\ \A args \in ArgLists :
                       LET out == call(heap, Merged, n, args)
                       IN  (out.tag = "invoked" /\ out.ran > Len(e)) =>
                               Matching(e, args) = {}

\* a and e register different implementations for the same arguments, and
\* the merged environment invokes e's
C6_Witness ==
    /\ AppendReturned
    /\ \E n \in MethodNames(envs[last.env]) \cap MethodNames(envs[last.other]) :
           \E args \in ArgLists :
               LET a == RegsOf(envs[last.env], n)
                   e == RegsOf(envs[last.other], n)
               IN  /\ Matching(a, args) # {}
                   /\ Matching(e, args) # {}
                   /\ a[Least(Matching(a, args))].f # e[Least(Matching(e, args))].f
                   /\ call(heap, Merged, n, args).tag = "invoked"
                   /\ call(heap, Merged, n, args).f = e[Least(Matching(e, args))].f

(***************************************************************************)
(* C7.  Merging is right-biased for properties: in a.envAppend(e) a        *)
(* property name bound in both a and e is bound to e's value.              *)
(***************************************************************************)
C7_PropertyOfArgumentWins ==
    AppendReturned =>
        \A n \in PropertyNames(envs[last.env]) \cap PropertyNames(envs[last.other]) :
            read(heap, Merged, n) = read(heap, envs[last.other], n)

(***************************************************************************)
(* C8.  Merging shares the unaffected entries: after envConcat or          *)
(* envAppend a method name registered on one side only has exactly that    *)
(* side's registration list, every call of it resolves as before the merge *)
(* and a call that no predicate matches still fails with findRegistered's  *)
(* error.                                                                  *)
(***************************************************************************)
\* the list of the base of the merge and the list merged into it
BaseRegs(n) ==
    IF last.op = "envConcat" THEN RegsOf(envs[last.env], n)
    ELSE RegsOf(envs[last.other], n)
ExtraRegs(n) ==
    IF last.op = "envConcat" THEN LitRegs(last.lit, n)
    ELSE RegsOf(envs[last.env], n)

C8_OneSidedUnchanged ==
    (ConcatReturned \/ AppendReturned) =>
        \A n \in CallNames :
            /\ (BaseRegs(n) # <<>> /\ ExtraRegs(n) = <<>>) =>
                   /\ RegsOf(Merged, n) = BaseRegs(n)
                   /\ \A args \in ArgLists :
                          call(heap, Merged, n, args) = findRegistered(BaseRegs(n), args)
            /\ (BaseRegs(n) = <<>> /\ ExtraRegs(n) # <<>>) =>
                   /\ RegsOf(Merged, n) = ExtraRegs(n)
                   /\ \A args \in ArgLists :
                          call(heap, Merged, n, args) = findRegistered(ExtraRegs(n), args)

(***************************************************************************)
(* C9.  Every method of an environment is curried: a call of a registered  *)
(* multimethod with fewer arguments than the declared parameter count of   *)
(* its first registered implementation returns a callable that awaits the  *)
(* remaining arguments, and no predicate or implementation runs.           *)
(***************************************************************************)
\* the last operation called a multimethod whose first registration declares
\* more parameters than the call gave arguments
ShortCall ==
    /\ CalledMethod
    /\ CalledRegs[1].isReg
    /\ Len(last.args) < functionLength(CalledRegs[1].f)

\* as claimed
C9_AsClaimed == ShortCall => last.out = Awaiting(last.args)

\* C9 as amended: a multimethod is not curried.  A call with fewer arguments
\* than the first registered implementation declares dispatches at once on
\* the arguments given: the first predicate is applied to them, and the
\* call invokes the matching implementation on just those arguments or
\* throws.
C9_ShortCallDispatches ==
    ShortCall =>
        /\ last.out = findRegistered(CalledRegs, last.args)
        /\ last.out.tag \in {"invoked", "thrown"}
        /\ last.out.ran >= 1
        /\ last.out.tag = "invoked" => last.out.args = last.args

\* an implementation of two parameters has been invoked on one argument
C9_Witness ==
    /\ ShortCall
    /\ last.out.tag = "invoked"
    /\ Len(last.out.args) = 1
    /\ functionLength(last.out.f) = 2
    /\ functionLength(CalledRegs[1].f) = 2

(***************************************************************************)
(* C10.  For a sum with the variants V, cata(table) on a value of the sum  *)
(* throws the TypeError of the exhaustiveness check when table lacks an    *)
(* entry for a variant in V or has an entry whose name is not in V, and no *)
(* entry of table has been applied; when the names of table are exactly V, *)
(* only the entry of the value's own variant is applied, to the values of  *)
(* that variant's fields in declared order.                                *)
(***************************************************************************)
ExhaustivenessViolation(out) ==
    /\ out.tag = "thrown"
    /\ out.type = "TypeError"
    /\ \/ \E key \in Keys(sum) \ Keys(done.dispatches) :
              out.message = <<"Constructors define ", key, " but not supplied to cata">>
       \/ \E key \in Keys(done.dispatches) \ Keys(sum) :
              out.message = <<"Found extra constructor supplied to cata: ", key>>

C10_CataExhaustive ==
    done.op = "cata" =>
        /\ Keys(done.dispatches) # Keys(sum) => ExhaustivenessViolation(done.out)
        /\ Keys(done.dispatches) = Keys(sum) =>
               done.out = Applied(Get(done.dispatches, done.this.name).v,
                                  [i \in 1..Len(done.this.pairs) |-> done.this.pairs[i][2]])

\* a table that covers every variant and has one entry more was refused
C10_Witness ==
    /\ done.op = "cata"
    /\ Len(sum) = 2
    /\ Keys(sum) \subseteq Keys(done.dispatches)
    /\ Keys(done.dispatches) # Keys(sum)
    /\ done.out.tag = "thrown"

\* no operation of the program reaches an implementation outside the model
DataInside == \A k \in 1..Len(step) : step[k].out.error # "Outside"

(***************************************************************************)
(* Vocabulary of the operations on the held value.                         *)
(***************************************************************************)
\* the k-th operation was op, applied to a value of the data structure
StepIs(k, op, family) ==
    /\ k \in 1..Len(step)
    /\ step[k].op = op
    /\ Family(step[k].this) = family

(***************************************************************************)
(* C11.  The applicative of Validation accumulates errors: ap of           *)
(* Failure(e1) over Failure(e2) is Failure(append(e1, e2)), e1's errors    *)
(* before e2's, never only the first failure; ap of a Failure with a       *)
(* Success, in either order, is that Failure unchanged.                    *)
(***************************************************************************)
C11_ValidationApAccumulates ==
    \A k \in 1..Len(step) :
        StepIs(k, "ap", "Validation") =>
            LET vf == step[k].this
                v == step[k].arg
            IN  /\ (vf.type = "failure" /\ v.type = "failure") =>
                       step[k].out = Res(Wrap("failure", Arr(vf.elems \o v.elems)), <<>>)
                /\ (vf.type = "failure" /\ v.type = "success") =>
                       step[k].out = Res(vf, <<>>)
                /\ (vf.type = "success" /\ v.type = "failure") =>
                       step[k].out = Res(v, <<>>)

\* two failures with different errors have been combined
C11_Witness ==
    \E k \in 1..Len(step) :
        /\ StepIs(k, "ap", "Validation")
        /\ step[k].this = Wrap("failure", Arr(<<1>>))
        /\ step[k].arg = Wrap("failure", Arr(<<2>>))
        /\ step[k].out.value = Wrap("failure", Arr(<<1, 2>>))

(***************************************************************************)
(* C14.  append on two Either values is right-biased: the result is a Left *)
(* only when both operands are Left (its value the inner append of the two *)
(* Left values); whenever at least one operand is a Right the result is a  *)
(* Right.                                                                  *)
(***************************************************************************)
\* as claimed
C14_AsClaimed ==
    \A k \in 1..Len(step) :
        (StepIs(k, "append", "Either") /\ step[k].out.ok) =>
            LET a == step[k].this
                b == step[k].arg
            IN  /\ (a.type = "left" /\ b.type = "left") =>
                       step[k].out.value = Wrap("left", Arr(a.elems \o b.elems))
                /\ (a.type = "right" \/ b.type = "right") =>
                       step[k].out.value.type = "right"

\* C14 as amended: the result is a Right only when both operands are Right
\* (its value the inner append of the two Right values); whenever at least
\* one operand is a Left the result is a Left: the inner append of the two
\* Left values when both are Left, and otherwise the Left operand itself.
C14_EitherAppendLeftAbsorbs ==
    \A k \in 1..Len(step) :
        StepIs(k, "append", "Either") =>
            LET a == step[k].this
                b == step[k].arg
            IN  /\ (a.type = "right" /\ b.type = "right" /\ a.kind = "array"
                        /\ b.kind = "array") =>
                       step[k].out = Res(Wrap("right", Arr(a.elems \o b.elems)), <<>>)
                /\ (a.type = "left" /\ b.type = "left") =>
                       step[k].out = Res(Wrap("left", Arr(a.elems \o b.elems)), <<>>)
                /\ (a.type = "left" /\ b.type = "right") => step[k].out = Res(a, <<>>)
                /\ (a.type = "right" /\ b.type = "left") => step[k].out = Res(b, <<>>)

\* a Right has been appended to a Left, and the result is that Left
C14_Witness ==
    \E k \in 1..Len(step) :
        /\ StepIs(k, "append", "Either")
        /\ step[k].this.type = "left"
        /\ step[k].arg.type = "right"
        /\ step[k].out.value = step[k].this

(***************************************************************************)
(* C15.  For all values x, defaults y and functions f:                     *)
(* Some(x).map(f).getOrElse(y) equals f(x), and None.map(f).getOrElse(y)   *)
(* equals y without f being invoked.                                       *)
(***************************************************************************)
C15_MapThenGetOrElse ==
    (Len(step) = 2 /\ StepIs(1, "map", "Option") /\ step[2].op = "getOrElse") =>
        LET o == step[1].this
            f == step[1].arg
            y == step[2].arg
        IN  /\ o.type = "some" =>
                   /\ step[2].out = Res(Return(f, Unwrap(o)).value, <<>>)
                   /\ trace = <<CallOf(f, Unwrap(o))>>
            /\ o.type = "none" =>
                   /\ step[2].out = Res(y, <<>>)
                   /\ trace = <<>>

\* Some([1]).map(dup).getOrElse([2]) has given [1, 1]
C15_Witness ==
    /\ Len(step) = 2
    /\ step[1] = Op("map", Wrap("some", Arr(<<1>>)), Fn("dup", <<>>),
                    Res(Wrap("some", Arr(<<1, 1>>)), <<CallOf(Fn("dup", <<>>), Arr(<<1>>))>>))
    /\ step[2].op = "getOrElse"
    /\ step[2].arg = Arr(<<2>>)
    /\ step[2].out.value = Arr(<<1, 1>>)

(***************************************************************************)
(* C12.  IO is lazy and performs once per perform(): making io(f) and      *)
(* composing io(f).flatMap(g) call neither f nor g; each perform() of the  *)
(* composed IO calls f once, then g once on f's result, then performs the  *)
(* IO that g returned once, in that order, and returns that inner result;  *)
(* io(f).perform() returns f's result.                                     *)
(***************************************************************************)
\* what the caller's thunks return and the thunk of the IO the caller's
\* functions return
ValueOfThunk(t) == IF t = "one" THEN Arr(<<1>>) ELSE Arr(<<2>>)
ThunkOf(g, a) ==
    IF g = "pureIO" THEN Fn("constantOf", a.elems) ELSE Fn("dupOf", a.elems)
ValueOfInner(g, a) ==
    IF g = "pureIO" THEN a ELSE Arr(a.elems \o a.elems)

\* the calls made by the perform() steps among the first k steps
RECURSIVE CallsOfPerforms(_)
CallsOfPerforms(k) ==
    IF k = 0 THEN <<>>
    ELSE CallsOfPerforms(k - 1) \o
             (IF step[k].op = "perform" THEN step[k].out.calls ELSE <<>>)

C12_IOLazyPerformsOnce ==
    /\ trace = CallsOfPerforms(Len(step))
    /\ \A k \in 1..Len(step) :
           LET v == step[k].this
               a == ValueOfThunk(v.fn)
           IN  /\ step[k].op = "flatMap" =>
                      step[k].out = Res(IO(v.fn, <<>>, Append(v.then, step[k].arg.fn)), <<>>)
               /\ (step[k].op = "perform" /\ v.then = <<>>) =>
                      step[k].out = Res(a, <<CallOf(Fn(v.fn, <<>>), Undef)>>)
               /\ (step[k].op = "perform" /\ Len(v.then) = 1) =>
                      step[k].out =
                          Res(ValueOfInner(v.then[1], a),
                              <<CallOf(Fn(v.fn, <<>>), Undef),
                                CallOf(Fn(v.then[1], <<>>), a),
                                CallOf(ThunkOf(v.then[1], a), Undef)>>)
               /\ step[k].op = "perform" =>
                      Len(step[k].out.calls) = 1 + 2 * Len(v.then)

\* io(one).flatMap(dupIO) has been performed twice
C12_Witness ==
    /\ Len(step) = 3
    /\ step[1].op = "flatMap"
    /\ step[1].arg.fn = "dupIO"
    /\ step[2].op = "perform"
    /\ step[3].op = "perform"
    /\ step[3].out.value = Arr(<<1, 1>>)
    /\ Len(trace) = 6

(***************************************************************************)
(* C13.  map over an IO value with a function f, through map of the        *)
(* environment, returns a new IO whose perform() yields f applied to the   *)
(* result of the original thunk, and does not call the original thunk at   *)
(* map time.                                                               *)
(***************************************************************************)
\* as claimed
C13_AsClaimed ==
    \A k \in 1..Len(step) :
        (step[k].op = "map" /\ step[k].this.type = "io") =>
            /\ step[k].out.ok
            /\ step[k].out.value.type = "io"
            /\ step[k].out.calls = <<>>

\* C13 as amended: the environment registers no map for IO values.  map
\* over an IO value throws findRegistered's Error; it returns no IO and
\* calls neither the thunk nor f.
C13_MapOnIONotImplemented ==
    \A k \in 1..Len(step) :
        (step[k].op = "map" /\ step[k].this.type = "io") =>
            step[k].out = Raise("Error", <<>>)

\* map has been applied to a composed IO
C13_Witness ==
    \E k \in 1..Len(step) :
        /\ step[k].op = "map"
        /\ step[k].this.type = "io"
        /\ step[k].this.then # <<>>
        /\ ~step[k].out.ok
        /\ trace = <<>>

(***************************************************************************)
(* Vocabulary of the lens steps: a step has the store it is about (this),  *)
(* the object it is about as it was then (before) and, for a set, the      *)
(* value set (arg) and the object returned (out).                          *)
(***************************************************************************)
SetSteps == {j \in 1..Len(step) : step[j].op = "set"}
RunSteps == {j \in 1..Len(step) : step[j].op = "run"}
SameObject(p, q) == Keys(p) = Keys(q) /\ \A key \in Keys(p) : Get(p, key) = Get(q, key)

(***************************************************************************)
(* C16.  Lens get-then-set is the identity: for every key k and every      *)
(* object o, also one that does not contain k,                             *)
(* objectLens(k).run(o).setter(objectLens(k).run(o).getter) has exactly    *)
(* o's keys with o's values.                                               *)
(***************************************************************************)
C16_GetThenSetIdentity ==
    \A j \in SetSteps :
        step[j].arg = step[j].this.getter =>
            SameObject(heap[step[j].out].pairs, step[j].before)

(***************************************************************************)
(* C17.  Lens set-then-get returns what was set and leaves the original    *)
(* untouched: objectLens(k).run(objectLens(k).run(o).setter(v)).getter is  *)
(* v, every other key of the result has o's value, and o itself is         *)
(* unchanged by the setter call.                                           *)
(***************************************************************************)
C17_SetThenGet ==
    \A j \in SetSteps :
        LET k == step[j].this.k
            result == heap[step[j].out].pairs
        IN  /\ \A i \in RunSteps :
                   (step[i].out = step[j].out /\ step[i].this.k = k) =>
                       step[i].this.getter = step[j].arg
            /\ Keys(result) = Keys(step[j].before) \cup {k}
            /\ \A key \in Keys(result) \ {k} : Get(result, key) = Get(step[j].before, key)
            /\ heap[step[j].this.o].pairs = step[j].before

\* a key o has was set to another value, and a lens on the result got it
C17_Witness ==
    \E j \in SetSteps, i \in RunSteps :
        /\ j < i
        /\ step[i].out = step[j].out
        /\ step[i].this.k = step[j].this.k
        /\ Has(step[j].before, step[j].this.k)
        /\ Cardinality(Keys(step[j].before)) = 2
        /\ step[j].arg # step[j].this.getter
        /\ step[i].this.getter = step[j].arg

(***************************************************************************)
(* C18.  trampoline on a computation of N nested cont steps that ends in   *)
(* done(r) terminates for every N, calls each of the N thunks exactly once *)
(* in chain order inside one loop (the frames in use do not grow with N),  *)
(* and returns r; on a done value it calls no thunk.                       *)
(***************************************************************************)
\* while it runs: the thunks called are the first ones of the chain, in
\* order, in the one frame of trampoline; once it has returned: all N were
\* called and r is returned
TrampolineRuns ==
    /\ trace = [i \in 1..Len(trace) |-> i]
    /\ Len(trace) <= step.n
    /\ step.frames = 1
    /\ step.pc = "done" => (Len(trace) = step.n /\ step.returned = step.r)

C18_TrampolineTerminates == []TrampolineRuns /\ <>(step.pc = "done")

\* the longest chain has been run to its end
C18_Witness ==
    /\ step.pc = "done"
    /\ step.n = MaxChain
    /\ Len(trace) = MaxChain
    /\ step.returned = step.r

(***************************************************************************)
(* The call of forAll has ended, by a return or by an error; the trials it *)
(* made, in order.                                                         *)
(***************************************************************************)
ForAllEnded == step.pc \in {"returned", "thrown"}
Trials == SelectSeq(trace, LAMBDA e : e.ev = "trial")
\* the trials that failed (1-based)
Failing == {k \in 1..Len(Trials) : ~Trials[k].holds}

(***************************************************************************)
(* C19.  forAll(property, argShapes) returns None exactly when property    *)
(* holds on all `goal` trials; otherwise it returns Some(report) where     *)
(* report.tries is the 0-based index of the first failing trial, trial i   *)
(* being generated with size i and no trial being generated after the      *)
(* failing one, and report.inputs has one entry per entry of argShapes.    *)
(***************************************************************************)
C19_ForAllReports ==
    ForAllEnded =>
        /\ \A k \in 1..Len(Trials) : Trials[k].size = k - 1
        /\ IF Failing = {}
           THEN Len(Trials) = goal /\ step.result = NoneReport
           ELSE /\ Failing = {Len(Trials)}
                /\ step.result.type = "some"
                /\ step.result.report.tries = Len(Trials) - 1
                /\ step.result.report.tries \in 0..(goal - 1)
                /\ Len(step.result.report.inputs) = Len(step.shapes)

(***************************************************************************)
(* C20.  The shrink search produces a locally-minimal counterexample: for  *)
(* the inputs reported by forAll and a deterministic property, there is no *)
(* argument position i and no candidate c in shrink(reported[i]) such that *)
(* the property is still false when c replaces reported[i].                *)
(***************************************************************************)
C20_LocallyMinimal ==
    (step.pc = "returned" /\ step.result.type = "some") =>
        LET reported == step.result.report.inputs
        IN  \A i \in 1..Len(reported) :
               LET r == shrink(reported[i])
               IN  r.ok =>
                     \A j \in 1..Len(r.value.items) :
                        propertyHolds(step.property,
                                      [reported EXCEPT ![i] = r.value.items[j]])

(***************************************************************************)
(* C21.  The inputs reported by the shrink search are themselves a         *)
(* counterexample: for a deterministic property that is false on the       *)
(* generated inputs, after every step of findSmallest the best-known       *)
(* argument tuple falsifies the property, and so does the tuple finally    *)
(* returned.                                                               *)
(***************************************************************************)
C21_SmallestFalsifies ==
    /\ step.pc = "scan" => ~propertyHolds(step.property, held.smallest)
    /\ (step.pc = "returned" /\ step.result.type = "some") =>
           ~propertyHolds(step.property, step.result.report.inputs)

\* a property of two arguments has failed and both positions were shrunk
C21_Witness ==
    /\ step.pc = "returned"
    /\ step.result.type = "some"
    /\ step.property = "same"
    /\ Len(step.shapes) = 2
    /\ \A i \in 1..2 : step.result.report.inputs[i] # held.inputs[i]

(***************************************************************************)
(* The applications of property that findSmallest has made, in order, and  *)
(* the best-known value of position l before the k-th of them: the last    *)
(* candidate of l found falsifying, the generated input when there is none.*)
(***************************************************************************)
Tries == SelectSeq(trace, LAMBDA e : e.ev = "candidate")
Kept(l, k) == {m \in 1..(k - 1) : Tries[m].pos = l /\ ~Tries[m].holds}
Best(l, k) ==
    IF Kept(l, k) = {} THEN held.inputs[l]
    ELSE Tries[CHOOSE m \in Kept(l, k) : \A x \in Kept(l, k) : x <= m].args[l]

(***************************************************************************)
(* C22.  The shrink search is a single left-to-right pass: positions are   *)
(* processed once each in index order; at position i the candidates,       *)
(* computed once from the original input, are tried in list order with     *)
(* earlier positions held at their shrunk values and later positions at    *)
(* their original values; each candidate that still falsifies the property *)
(* becomes the best-known value for position i and the scan goes on with   *)
(* the next candidate; the scan of position i stops at the first candidate *)
(* for which the property holds; an earlier position is never revisited.   *)
(***************************************************************************)
C22_SingleLeftToRightPass ==
    /\ \A k \in 1..Len(Tries) :
          LET e == Tries[k]
          IN  /\ e.args[e.pos] = At(shrink(held.inputs[e.pos]).value, e.cand)
              /\ e.holds = propertyHolds(step.property, e.args)
              /\ \A l \in 1..Len(e.args) :
                    /\ l < e.pos => e.args[l] = Best(l, k)
                    /\ l > e.pos => e.args[l] = held.inputs[l]
              /\ IF k = 1 \/ Tries[k - 1].pos # e.pos
                 THEN e.cand = 1
                 ELSE e.cand = Tries[k - 1].cand + 1 /\ ~Tries[k - 1].holds
              /\ k > 1 =>
                    /\ Tries[k - 1].pos <= e.pos
                    /\ Tries[k - 1].pos < e.pos =>
                          \/ Tries[k - 1].holds
                          \/ Tries[k - 1].cand = shrink(held.inputs[Tries[k - 1].pos]).value.length
    /\ step.pc = "scan" =>
          \A l \in 1..Len(held.smallest) : held.smallest[l] = Best(l, Len(Tries) + 1)
    /\ (step.pc = "returned" /\ step.result.type = "some") =>
          \A l \in 1..Len(held.inputs) :
             step.result.report.inputs[l] = Best(l, Len(Tries) + 1)

\* position 0 kept a candidate and stopped at the next, and position 1 was
\* tried with the value kept
C22_Witness ==
    \E k \in 1..Len(Tries) :
        /\ k > 2
        /\ Tries[k].pos = 2
        /\ Tries[k - 1].pos = 1 /\ Tries[k - 1].holds
        /\ Tries[k - 2].pos = 1 /\ ~Tries[k - 2].holds
        /\ Tries[k].args[1] # held.inputs[1]

(***************************************************************************)
(* C23.  For every integer n, shrink(n) terminates and every candidate it  *)
(* returns is strictly smaller than n (strictly closer to zero in absolute *)
(* value); in particular no candidate equals n and the list for n = 0 is   *)
(* empty.                                                                  *)
(***************************************************************************)
Magnitude(x) == IF x.elems[1] < 0 THEN -x.elems[1] ELSE x.elems[1]

C23_NumberCandidatesSmaller ==
    step.pc = "scan" =>
        \A i \in 1..Len(held.inputs) :
            held.inputs[i].kind = "number" =>
                LET candidates == held.shrunken[i].items
                IN  /\ \A j \in 1..Len(candidates) :
                          Magnitude(candidates[j]) < Magnitude(held.inputs[i])
                    /\ held.inputs[i] = Num(0) => candidates = <<>>

(***************************************************************************)
(* C24.  shrink on a boolean returns a candidate list: the empty list for  *)
(* false and the one-element list [false] for true, so that shrinking a    *)
(* boolean argument in forAll only ever substitutes boolean values for it. *)
(***************************************************************************)
C24_BooleanCandidates ==
    /\ step.pc = "scan" =>
          \A i \in 1..Len(held.inputs) :
              held.inputs[i].kind = "boolean" =>
                  held.shrunken[i] =
                      Candidates(IF held.inputs[i] = Bool(TRUE) THEN <<Bool(FALSE)>>
                                 ELSE <<>>)
    /\ \A k \in 1..Len(Tries) :
          step.shapes[Tries[k].pos] = "Boolean" =>
              Tries[k].args[Tries[k].pos].kind = "boolean"

(***************************************************************************)
(* C25.  shrink on a string or an array returns candidates obtained by     *)
(* dropping trailing elements: every candidate is a prefix of the input    *)
(* (the empty value first, then the input with its last floor(len/2),      *)
(* floor(len/4), ..., 1 elements dropped), for strings and for arrays      *)
(* alike.                                                                  *)
(***************************************************************************)
\* the prefixes of e without its last floor(len/2), floor(len/4), ..., 1
\* elements, after the empty list
RECURSIVE Dropped(_, _)
Dropped(e, x) ==
    IF x \div 2 = 0 THEN <<>>
    ELSE <<SubSeq(e, 1, Len(e) - x \div 2)>> \o Dropped(e, x \div 2)

C25_CandidatesArePrefixes ==
    (step # <<>> /\ held.kind \in {"string", "array"}) =>
        /\ step[1].ok
        /\ step[1].value.kind = "array"
        /\ LET expected == <<<<>>>> \o Dropped(held.elems, Len(held.elems))
               items == step[1].value.items
           IN  /\ Len(items) = Len(expected)
               /\ \A k \in 1..Len(items) :
                     /\ items[k].kind = held.kind
                     /\ items[k].elems = expected[k]

(***************************************************************************)
(* C26.  Generation with arb terminates for every shape and size, and      *)
(* every recursive arb call made while generating a compound shape         *)
(* (arrayOf, objectLike, Array, Object, String, AnyVal) at size s is made  *)
(* with size s - 1.                                                        *)
(***************************************************************************)
RecursiveCallsOneSmaller ==
    \A k \in 1..Len(held) :
        held[k].parent # <<>> => held[k].size = Minus1(held[k].psize)

C26_ArbTerminatesSizesDecrease == []RecursiveCallsOneSmaller /\ <>(held = <<>>)

(***************************************************************************)
(* C27.  equal on two arrays a and b is true exactly when the elements at  *)
(* every index below min(len(a), len(b)) are pairwise equal (equal gives   *)
(* true on each pair); lengths are not compared and trailing elements of   *)
(* the longer array are never compared, so two arrays of different         *)
(* lengths where one is a prefix of the other (the empty array against     *)
(* any array included) are reported equal.                                 *)
(***************************************************************************)
True == Res(Bool(TRUE), <<>>)
Shorter == IF Len(held[1].elems) < Len(held[2].elems) THEN held[1] ELSE held[2]
Longer == IF Len(held[1].elems) < Len(held[2].elems) THEN held[2] ELSE held[1]
PairwiseEqual ==
    \A i \in 1..Len(Shorter.elems) : equal(held[1].elems[i], held[2].elems[i]) = True
\* one array is the other one cut short, and equal is true of each of its
\* elements and itself
ProperPrefix ==
    /\ Len(Shorter.elems) < Len(Longer.elems)
    /\ \A i \in 1..Len(Shorter.elems) :
          /\ Shorter.elems[i].kind = Longer.elems[i].kind
          /\ Shorter.elems[i] = Longer.elems[i]
          /\ equal(Shorter.elems[i], Shorter.elems[i]) = True

C27_ArrayEqualComparesCommonIndexes ==
    step # <<>> =>
        /\ (step[1] = True) <=> PairwiseEqual
        /\ ProperPrefix => step[1] = True

C27_Witness ==
    /\ step # <<>>
    /\ ProperPrefix
    /\ Shorter.elems # <<>>
    /\ step[1] = True

(***************************************************************************)
(* C28.  Lens composition drills from the argument lens's focus into the   *)
(* receiver's focus: for keys k1, k2 and object w,                         *)
(* objectLens(k2).compose(objectLens(k1)).run(w) has getter w[k1][k2], and *)
(* its setter(v) returns w with k1 rebound to (w[k1] with k2 rebound to    *)
(* v), all other keys at both levels keeping their values and w and w[k1]  *)
(* themselves unchanged.                                                   *)
(***************************************************************************)
\* w[k1] as it was before the lens ran: the entries of the object, none for
\* a number
Focus == IF Get(step.w, step.k1).kind = "object" THEN step.part ELSE <<>>

C28_ComposeDrillsInward ==
    /\ step.pc \in {"ran", "set"} => held.ts.getter = Get(Focus, step.k2)
    /\ step.pc = "set" =>
          LET result == heap[step.out].pairs
              rebound == Get(result, step.k1)
          IN  /\ Keys(result) = Keys(step.w)
              /\ \A key \in Keys(result) \ {step.k1} : Get(result, key) = Get(step.w, key)
              /\ rebound.kind = "object"
              /\ rebound.v \notin {1, 2, step.out}
              /\ Keys(heap[rebound.v].pairs) = Keys(Focus) \cup {step.k2}
              /\ Get(heap[rebound.v].pairs, step.k2) = step.arg
              /\ \A key \in Keys(Focus) \ {step.k2} :
                    Get(heap[rebound.v].pairs, key) = Get(Focus, key)
              /\ heap[1].pairs = step.w
              /\ heap[2].pairs = step.part

\* w has two keys and w[k1] is an object of two keys, one of them k2, that
\* is set to another value
C28_Witness ==
    /\ step.pc = "set"
    /\ Cardinality(Keys(step.w)) = 2
    /\ Get(step.w, step.k1) = JSRef(2)
    /\ Cardinality(Keys(step.part)) = 2
    /\ Has(step.part, step.k2)
    /\ step.k1 # step.k2
    /\ step.arg # Get(step.part, step.k2)

(***************************************************************************)
(* C29.  The Do syntax scope restores the global queue: whenever the       *)
(* function returned by Do() finishes, whether it returns a value or       *)
(* raises an error (ambiguous operator, or an error raised by the          *)
(* dispatched flatMap/map/kleisli/ap/append call), doQueue is back to the  *)
(* value it had before Do() was called, so that after any sequence of      *)
(* completed and nested Do scopes a valueOf call made outside every Do     *)
(* block uses the object's original valueOf and pushes nothing.            *)
(***************************************************************************)
C29_DoRestoresQueue ==
    /\ step.ev \in {"returned", "ambiguous", "thrown"} => held = step.saved
    /\ (step.scopes = <<>> /\ ~step.raised) => held = NoQueue

(***************************************************************************)
(* C30.  Each request to the /show and /show/:id routes is answered with   *)
(* exactly one response: when the database query callback reports an       *)
(* error, the error is sent as the response and nothing else is sent or    *)
(* read from the results afterwards; when it reports rows, the rows (or    *)
(* the first row) are sent once; when it reports no rows, 'No data found'  *)
(* is sent once.                                                           *)
(***************************************************************************)
\* the query callback of the request at hand has run
Queried == step.pc \in {"answered", "thrown"} /\ (step.err \/ step.results.defined)

C30_OneResponsePerQuery ==
    Queried =>
        /\ Len(step.calls) = 1
        /\ step.err => (step.calls[1].kind = "err" /\ ~step.read)
        /\ (~step.err /\ step.results.rows # <<>>) =>
              step.calls[1] = IF held = "/show"
                                THEN Json("results", step.results.rows)
                                ELSE Json("results[0]", <<step.results.rows[1]>>)
        /\ (~step.err /\ step.results.rows = <<>>) =>
              step.calls[1] = Json("No data found", <<>>)

====
